---------------------------- MODULE Spec2Model ----------------------------
(* A model of the streaming JSON decoder: StreamBuffer (Buffer.ts), the   *)
(* decode functions (decode.ts) and the pull tokenizer Decoder            *)
(* (Decoder.ts).  Text is a sequence of one-character strings; a source   *)
(* is a queue of chunks.  A buffer value b is the pair of the             *)
(* StreamBuffer's content and the reader's remaining chunks; every        *)
(* operation returns its result together with the buffer it leaves.      *)
EXTENDS Integers, Sequences, FiniteSets, TLC

VARIABLES
  tree,      \* the JSON value the input text was written from
  input,     \* the chunks the stream was given, in order
  owner,     \* which object was constructed: "Decoder" or "StreamBuffer"
  content,   \* StreamBuffer.content
  src,       \* chunks the reader has not delivered yet
  endless,   \* TRUE when the stream has a pull() that never closes
  stack,     \* Decoder.#nextTokenStack (top is the last element)
  trace,     \* the calls made so far, with what each returned
  lastMore,  \* result of more() if it was the immediately preceding call
  frames     \* the async calls in progress, innermost last; <<>> between calls

vars == <<tree, input, owner, content, src, endless, stack, trace, lastMore, frames>>

-----------------------------------------------------------------------------
(* Bounds of the model *)
MaxNodes == 3      \* nodes (primitives and containers) of a generated value
MaxChunk == 2      \* largest uniform chunk size tried
MaxCalls == 5      \* calls recorded in trace

-----------------------------------------------------------------------------
(* Characters *)
EOS       == ""             \* what peek()/next() return when the reader is done
Undefined == "undefined"    \* "".[0] in JavaScript
Quote     == "\""
Backslash == "\\"
Newline   == "\n"

isWhitespace(char) == char = " " \/ char = "\t" \/ char = "\n" \/ char = "\r"

allowedNumbers == <<"0", "1", "2", "3", "4", "5", "6", "7", "8", "9">>

isNumber(char) == \E i \in 1..10 : allowedNumbers[i] = char

DigitValue(char) == (CHOOSE i \in 1..10 : allowedNumbers[i] = char) - 1

-----------------------------------------------------------------------------
(* Values and errors *)
StrVal(s)    == [k |-> "str", s |-> s]
NumVal(n, d) == [k |-> "num", n |-> n, d |-> d]   \* n / 10^d
NaNVal       == [k |-> "nan"]
BoolVal(b)   == [k |-> "bool", b |-> b]
NullVal      == [k |-> "null"]
ArrVal(a)    == [k |-> "arr", a |-> a]
ObjVal(o)    == [k |-> "obj", o |-> o]            \* o: sequence of <<key, value>>

unexpectedEnd         == [k |-> "err", e |-> "unexpectedEnd"]
unexpectedToken(char) == [k |-> "err", e |-> "unexpectedToken", c |-> char]
unknownStart(char)    == [k |-> "err", e |-> "unknownStart", c |-> char]
EOF                   == [k |-> "err", e |-> "EOF"]

IsError(r)  == r.k = "err"                \* r instanceof Error
Thrown(err) == [k |-> "throw", err |-> err] \* a rejected promise
IsThrown(r) == r.k = "throw"

-----------------------------------------------------------------------------
(* StreamBuffer *)
PullChunk == <<Quote, "f", "o", "o", Quote, ",">>

Read(b) ==
  IF b.src # <<>>
    THEN [done |-> FALSE, value |-> Head(b.src), b |-> [b EXCEPT !.src = Tail(@)]]
    ELSE IF b.endless
      THEN [done |-> FALSE, value |-> PullChunk, b |-> b]
      ELSE [done |-> TRUE, value |-> <<>>, b |-> b]

CharAt0(s) == IF s = <<>> THEN Undefined ELSE Head(s)

Substring1(s) == IF s = <<>> THEN <<>> ELSE Tail(s)

(* next() as it would be without the test of done *)
BufNextNoDone(b) ==
  LET Got(r) ==
        [c |-> CharAt0(r.value), b |-> [r.b EXCEPT !.content = Substring1(r.value)]]
  IN IF b.content = <<>>
       THEN Got(Read(b))
       ELSE [c |-> Head(b.content), b |-> [b EXCEPT !.content = Tail(@)]]

BufNext(b) ==
  LET Got(r) ==
        IF r.done
          THEN [c |-> EOS, b |-> r.b]
          ELSE [c |-> CharAt0(r.value),
                b |-> [r.b EXCEPT !.content = Substring1(r.value)]]
  IN IF b.content = <<>>
       THEN Got(Read(b))
       ELSE [c |-> Head(b.content), b |-> [b EXCEPT !.content = Tail(@)]]

(* peek() as it would be if it read ahead whatever content holds *)
BufPeekAhead(b) ==
  LET Got(r) ==
        IF r.done
          THEN [c |-> IF b.content = <<>> THEN EOS ELSE Head(b.content), b |-> r.b]
          ELSE [c |-> CharAt0(b.content \o r.value),
                b |-> [r.b EXCEPT !.content = b.content \o r.value]]
  IN Got(Read(b))

(* peek() as it would be if it advanced past the character on a refill *)
BufPeekDrop(b) ==
  LET Got(r) ==
        IF r.done
          THEN [c |-> EOS, b |-> r.b]
          ELSE [c |-> CharAt0(r.value), b |-> [r.b EXCEPT !.content = Substring1(r.value)]]
  IN IF b.content = <<>> THEN Got(Read(b)) ELSE [c |-> Head(b.content), b |-> b]

BufPeek(b) ==
  LET Got(r) ==
        IF r.done
          THEN [c |-> EOS, b |-> r.b]
          ELSE [c |-> CharAt0(r.value), b |-> [r.b EXCEPT !.content = r.value]]
  IN IF b.content = <<>> THEN Got(Read(b)) ELSE [c |-> Head(b.content), b |-> b]

RECURSIVE consumeWhitespace(_)
consumeWhitespace(b) ==
  LET Peeked(p) ==
        IF isWhitespace(p.c) THEN consumeWhitespace(BufNext(p.b).b) ELSE p.b
  IN Peeked(BufPeek(b))

-----------------------------------------------------------------------------
(* Scalar decoders: each returns [res, b] *)
Ret(res, b) == [res |-> res, b |-> b]

stringifiedNull  == <<"n", "u", "l", "l">>
stringifiedTrue  == <<"t", "r", "u", "e">>
stringifiedFalse == <<"f", "a", "l", "s", "e">>

RECURSIVE NullLoop(_, _)
NullLoop(b, i) ==
  LET Char(n) ==
        IF n.c = EOS THEN Ret(unexpectedEnd, n.b)
        ELSE IF n.c # stringifiedNull[i] THEN Ret(unexpectedToken(n.c), n.b)
        ELSE NullLoop(n.b, i + 1)
  IN IF i > Len(stringifiedNull) THEN Ret(NullVal, b) ELSE Char(BufNext(b))

(* decodeNull as it would be with the comparison starting at the second letter *)
decodeNullFromTwo(b) == NullLoop(b, 2)

decodeNull(b) == NullLoop(b, 1)

RECURSIVE BooleanLoop(_, _, _)
BooleanLoop(b, match, i) ==
  LET Char(n) ==
        IF n.c = Undefined THEN Ret(unexpectedEnd, n.b)
        ELSE IF n.c # match[i] THEN Ret(unexpectedToken(n.c), n.b)
        ELSE BooleanLoop(n.b, match, i + 1)
  IN IF i > Len(match) THEN Ret(BoolVal(match = stringifiedTrue), b)
     ELSE Char(BufNext(b))

decodeBoolean(b) ==
  LET First(p) ==
        BooleanLoop(p.b, IF p.c = "t" THEN stringifiedTrue ELSE stringifiedFalse, 1)
  IN First(BufPeek(b))

(* parseFloat on a run of digits with at most one ".", never leading *)
RECURSIVE DigitsValue(_)
DigitsValue(s) ==
  IF s = <<>> THEN 0 ELSE 10 * DigitsValue(SubSeq(s, 1, Len(s) - 1)) + DigitValue(s[Len(s)])

RECURSIVE StripZeros(_)
StripZeros(s) ==
  IF s # <<>> /\ s[Len(s)] = "0" THEN StripZeros(SubSeq(s, 1, Len(s) - 1)) ELSE s

parseFloat(s) ==
  LET Split(dot) ==
        LET Frac(frac) == NumVal(DigitsValue(SubSeq(s, 1, dot - 1) \o frac), Len(frac))
        IN Frac(StripZeros(SubSeq(s, dot + 1, Len(s))))
  IN IF s = <<>> THEN NaNVal
     ELSE IF \E i \in 1..Len(s) : s[i] = "."
       THEN Split(CHOOSE i \in 1..Len(s) : s[i] = ".")
       ELSE NumVal(DigitsValue(s), 0)

RECURSIVE NumberLoop(_, _, _, _)
NumberLoop(b, jsonNumber, hasDecimal, i) ==
  LET Char(n) ==
        IF n.c = EOS THEN Ret(unexpectedEnd, n.b)
        ELSE IF n.c = "."
          THEN IF i + 1 = 0 \/ hasDecimal
                 THEN Ret(unexpectedToken(n.c), n.b)
                 ELSE NumberLoop(n.b, Append(jsonNumber, n.c), TRUE, i + 1)
        ELSE IF ~isNumber(n.c) THEN Ret(parseFloat(jsonNumber), n.b)
        ELSE NumberLoop(n.b, Append(jsonNumber, n.c), hasDecimal, i + 1)
      Second(p2) ==
        IF isNumber(p2.c) THEN Char(BufNext(p2.b)) ELSE Ret(parseFloat(jsonNumber), p2.b)
      First(p1) ==
        IF p1.c = "." THEN Char(BufNext(p1.b)) ELSE Second(BufPeek(p1.b))
  IN First(BufPeek(b))

(* decodeNumber as it would be with the character count starting at 0 *)
decodeNumberFromOne(b) == NumberLoop(b, <<>>, FALSE, 0)

decodeNumber(b) == NumberLoop(b, <<>>, FALSE, -1)

RECURSIVE StringLoop(_, _, _)
StringLoop(b, jsonString, escaped) ==
  LET Char(n) ==
        IF n.c = EOS THEN Ret(unexpectedEnd, n.b)
        ELSE IF escaped
          THEN IF n.c = Quote \/ n.c = Backslash
                 THEN StringLoop(n.b, Append(jsonString, n.c), FALSE)
               ELSE IF n.c = "n"
                 THEN StringLoop(n.b, Append(jsonString, Newline), FALSE)
               ELSE StringLoop(n.b, jsonString, TRUE)
        ELSE IF n.c = Backslash THEN StringLoop(n.b, jsonString, TRUE)
        ELSE IF n.c = Quote THEN Ret(StrVal(jsonString), n.b)
        ELSE StringLoop(n.b, Append(jsonString, n.c), FALSE)
  IN Char(BufNext(b))

(* decodeString as it would be without the next() that skips the opening quote *)
decodeStringNoSkip(b) == StringLoop(b, <<>>, FALSE)

decodeString(b) == StringLoop(BufNext(b).b, <<>>, FALSE)

-----------------------------------------------------------------------------
(* Value decoder *)
Kind(type) == [k |-> "kind", type |-> type]

(* whichJSONValue as it would be with next() in place of peek() *)
whichJSONValueNext(b) ==
  LET Which(firstChar) ==
        IF firstChar = "t" THEN Kind("JSONBoolean")
        ELSE IF firstChar = "f" THEN Kind("JSONBoolean")
        ELSE IF firstChar = "n" THEN Kind("JSONNull")
        ELSE IF firstChar = Quote THEN Kind("JSONString")
        ELSE IF isNumber(firstChar) THEN Kind("JSONNumber")
        ELSE IF firstChar = "[" THEN Kind("JSONArray")
        ELSE IF firstChar = "{" THEN Kind("JSONObject")
        ELSE Thrown(unknownStart(firstChar))
      Peeked(p) == Ret(Which(p.c), p.b)
  IN Peeked(BufNext(b))

whichJSONValue(b) ==
  LET Which(firstChar) ==
        IF firstChar = "t" THEN Kind("JSONBoolean")
        ELSE IF firstChar = "f" THEN Kind("JSONBoolean")
        ELSE IF firstChar = "n" THEN Kind("JSONNull")
        ELSE IF firstChar = Quote THEN Kind("JSONString")
        ELSE IF isNumber(firstChar) THEN Kind("JSONNumber")
        ELSE IF firstChar = "[" THEN Kind("JSONArray")
        ELSE IF firstChar = "{" THEN Kind("JSONObject")
        ELSE Thrown(unknownStart(firstChar))
      Peeked(p) == Ret(Which(p.c), p.b)
  IN Peeked(BufPeek(b))

(* obj[key] = val as it would be if a key already present kept its value *)
SetMemberOnce(o, key, val) ==
  IF \E i \in 1..Len(o) : o[i][1] = key THEN o ELSE Append(o, <<key, val>>)

(* obj[key] = val on an insertion-ordered object *)
SetMember(o, key, val) ==
  IF \E i \in 1..Len(o) : o[i][1] = key
    THEN [i \in 1..Len(o) |-> IF o[i][1] = key THEN <<key, val>> ELSE o[i]]
    ELSE Append(o, <<key, val>>)

RECURSIVE decodeValue(_), ArrayLoop(_, _, _), ObjectLoop(_, _, _)

decodeArray(b) ==
  LET First(n) ==
        IF n.c # "[" THEN Ret(unexpectedToken(n.c), n.b) ELSE ArrayLoop(n.b, <<>>, TRUE)
  IN First(BufNext(b))

ArrayLoop(b, arr, first) ==
  LET Closing(n) ==
        IF n.c # "]" THEN Ret(unexpectedToken(n.c), n.b) ELSE Ret(ArrVal(arr), n.b)
      Element(r) ==
        IF IsThrown(r.res) THEN Ret(r.res.err, r.b)
        ELSE ArrayLoop(consumeWhitespace(r.b), Append(arr, r.res), FALSE)
      Comma(n) ==
        IF n.c # "," THEN Ret(unexpectedToken(n.c), n.b) ELSE Element(decodeValue(n.b))
      Peeked(p) ==
        IF p.c = "]" THEN Closing(BufNext(p.b))
        ELSE IF first THEN Element(decodeValue(p.b))
        ELSE Comma(BufNext(p.b))
  IN Peeked(BufPeek(b))

decodeObject(b) ==
  LET First(n) ==
        IF n.c # "{" THEN Ret(unexpectedToken(n.c), n.b) ELSE ObjectLoop(n.b, <<>>, TRUE)
  IN First(BufNext(b))

ObjectLoop(b, obj, first) ==
  LET Closing(n) ==
        IF n.c # "}" THEN Ret(unexpectedToken(n.c), n.b) ELSE Ret(ObjVal(obj), n.b)
      Member(key, val) ==
        IF IsThrown(val.res) \/ IsError(val.res) THEN val
        ELSE ObjectLoop(consumeWhitespace(val.b), SetMember(obj, key, val.res), FALSE)
      Colon(key, n) ==
        IF n.c # ":" THEN Ret(unexpectedToken(n.c), n.b)
        ELSE Member(key, decodeValue(n.b))
      Key(key) ==
        IF IsError(key.res) THEN key
        ELSE Colon(key.res.s, BufNext(consumeWhitespace(key.b)))
      Comma(n) ==
        IF n.c # "," THEN Ret(unexpectedToken(n.c), n.b)
        ELSE Key(decodeString(consumeWhitespace(n.b)))
      Peeked(p) ==
        IF p.c = "}" THEN Closing(BufNext(p.b))
        ELSE IF first THEN Key(decodeString(consumeWhitespace(p.b)))
        ELSE Comma(BufNext(p.b))
  IN Peeked(BufPeek(b))

decodeValue(b) ==
  LET Dispatch(w) ==
        IF IsThrown(w.res) THEN w
        ELSE IF w.res = Kind("JSONBoolean") THEN decodeBoolean(w.b)
        ELSE IF w.res = Kind("JSONNull") THEN decodeNull(w.b)
        ELSE IF w.res = Kind("JSONString") THEN decodeString(w.b)
        ELSE IF w.res = Kind("JSONNumber") THEN decodeNumber(w.b)
        ELSE IF w.res = Kind("JSONArray") THEN decodeArray(w.b)
        ELSE decodeObject(w.b)
  IN Dispatch(whichJSONValue(consumeWhitespace(b)))

-----------------------------------------------------------------------------
(* Tokens *)
openObject  == [k |-> "tok", kind |-> "{"]
closeObject == [k |-> "tok", kind |-> "}"]
openArray   == [k |-> "tok", kind |-> "["]
closeArray  == [k |-> "tok", kind |-> "]"]
keyToken(s)   == [k |-> "tok", kind |-> "KEY", value |-> s]
valueToken(v) == [k |-> "tok", kind |-> "VALUE", value |-> v]

-----------------------------------------------------------------------------
(* Decoder: the continuation steps.  Each takes the buffer and the stack  *)
(* left by token()'s pop and returns [res, b, stack].                     *)
Out(res, b, stk) == [res |-> res, b |-> b, stack |-> stk]

Push(stk, steps) == stk \o steps

Pop(stk) == IF stk = <<>> THEN <<>> ELSE SubSeq(stk, 1, Len(stk) - 1)

Top(stk) == IF stk = <<>> THEN "none" ELSE stk[Len(stk)]

valueStep(b, stk) ==
  LET Decoded(r) ==
        IF IsThrown(r.res) \/ IsError(r.res) THEN Out(r.res, r.b, stk)
        ELSE Out(valueToken(r.res), r.b, stk)
      Peeked(p) ==
        IF p.c = "{"
          THEN Out(openObject, BufNext(p.b).b,
                   Push(stk, <<"endObjectOrValue", "value", "key">>))
        ELSE IF p.c = "["
          THEN Out(openArray, BufNext(p.b).b, Push(stk, <<"endArrayOrValue", "value">>))
        ELSE Decoded(decodeValue(p.b))
  IN Peeked(BufPeek(consumeWhitespace(b)))

(* #key as it would be with peek() in place of next() for the colon *)
keyStepPeek(b, stk) ==
  LET Colon(value, colon) ==
        IF colon.c # ":" THEN Out(unexpectedToken(colon.c), colon.b, stk)
        ELSE Out(keyToken(value.res.s), colon.b, stk)
      Key(value) ==
        IF IsError(value.res) THEN Out(value.res, value.b, stk)
        ELSE Colon(value, BufPeek(consumeWhitespace(value.b)))
  IN Key(decodeString(consumeWhitespace(b)))

keyStep(b, stk) ==
  LET Colon(value, colon) ==
        IF colon.c # ":" THEN Out(unexpectedToken(colon.c), colon.b, stk)
        ELSE Out(keyToken(value.res.s), colon.b, stk)
      Key(value) ==
        IF IsError(value.res) THEN Out(value.res, value.b, stk)
        ELSE Colon(value, BufNext(consumeWhitespace(value.b)))
  IN Key(decodeString(consumeWhitespace(b)))

endObject(b, stk) ==
  LET Char(n) ==
        IF n.c # "}" THEN Out(unexpectedToken(n.c), n.b, stk)
        ELSE Out(closeObject, n.b, stk)
  IN Char(BufNext(consumeWhitespace(b)))

(* next() called without await as it would be if it awaited the reader    *)
(* on every call                                                          *)
nextUnawaitedReads(b) == [pending |-> TRUE, b |-> b]

(* next() called without await: the call runs up to its first await.     *)
(* With a character in content it takes that character and completes;     *)
(* with content empty it is left waiting for reader.read().               *)
nextUnawaited(b) ==
  IF b.content = <<>> THEN [pending |-> TRUE, b |-> b]
  ELSE [pending |-> FALSE, b |-> BufNext(b).b]

(* The buffer the caller goes on with.  A call left waiting has its read  *)
(* in flight when the caller's own peek() issues a second read; the       *)
(* reader fulfils reads in the order they were issued, so next() takes    *)
(* the first character of the first chunk and peek() appends the second.  *)
Settled(n) ==
  LET Second(r1, r2) == [r2.b EXCEPT !.content = Substring1(n.b.content \o r1.value) \o r2.value]
      First(r1) == Second(r1, Read(r1.b))
  IN IF n.pending THEN First(Read(n.b)) ELSE n.b

(* #endObjectOrValue as it would be with next() in place of peek() *)
endObjectOrValueNext(b, stk) ==
  LET Peeked(p) ==
        IF p.c = "}" THEN endObject(p.b, stk)
        ELSE IF p.c = ","
          THEN keyStep(Settled(nextUnawaited(p.b)), Push(stk, <<"endObjectOrValue", "value">>))
        ELSE Out(unexpectedToken(p.c), p.b, stk)
  IN Peeked(BufNext(consumeWhitespace(b)))

endObjectOrValue(b, stk) ==
  LET Peeked(p) ==
        IF p.c = "}" THEN endObject(p.b, stk)
        ELSE IF p.c = ","
          \* next() is not awaited here
          THEN keyStep(Settled(nextUnawaited(p.b)), Push(stk, <<"endObjectOrValue", "value">>))
        ELSE Out(unexpectedToken(p.c), p.b, stk)
  IN Peeked(BufPeek(consumeWhitespace(b)))

endArray(b, stk) ==
  LET Char(n) ==
        IF n.c # "]" THEN Out(unexpectedToken(n.c), n.b, stk)
        ELSE Out(closeArray, n.b, stk)
  IN Char(BufNext(consumeWhitespace(b)))

(* #endArrayOrValue as it would be without re-scheduling itself after "," *)
endArrayOrValueNoPush(b, stk) ==
  LET Peeked(p) ==
        IF p.c = "]" THEN endArray(p.b, stk)
        ELSE IF p.c = "," THEN valueStep(BufNext(p.b).b, stk)
        ELSE Out(unexpectedToken(p.c), p.b, stk)
  IN Peeked(BufPeek(consumeWhitespace(b)))

(* #endArrayOrValue as it would be if it scheduled itself twice after "," *)
endArrayOrValueLeak(b, stk) ==
  LET Peeked(p) ==
        IF p.c = "]" THEN endArray(p.b, stk)
        ELSE IF p.c = ","
          THEN valueStep(BufNext(p.b).b, Push(stk, <<"endArrayOrValue", "endArrayOrValue">>))
        ELSE Out(unexpectedToken(p.c), p.b, stk)
  IN Peeked(BufPeek(consumeWhitespace(b)))

endArrayOrValue(b, stk) ==
  LET Peeked(p) ==
        IF p.c = "]" THEN endArray(p.b, stk)
        ELSE IF p.c = ","
          THEN valueStep(BufNext(p.b).b, Push(stk, <<"endArrayOrValue">>))
        ELSE Out(unexpectedToken(p.c), p.b, stk)
  IN Peeked(BufPeek(consumeWhitespace(b)))

(* Decoder: the public operations *)
Run(fn, b, rest) ==
  IF fn = "value" THEN valueStep(b, rest)
  ELSE IF fn = "key" THEN keyStep(b, rest)
  ELSE IF fn = "endObjectOrValue" THEN endObjectOrValue(b, rest)
  ELSE endArrayOrValue(b, rest)

(* token() as it would be if an empty stack started a new value *)
tokenRestart(b, stk) ==
  IF stk = <<>> THEN valueStep(b, stk) ELSE Run(Top(stk), b, Pop(stk))

token(b, stk) ==
  IF stk = <<>> THEN Out(EOF, b, stk) ELSE Run(Top(stk), b, Pop(stk))

(* decode() as it would be without the pop of the pending value step *)
decodeNoPop(b, stk) ==
  LET Decoded(r) == Out(r.res, r.b, stk) IN Decoded(decodeValue(b))

decode(b, stk) ==
  LET Decoded(r) == Out(r.res, r.b, Pop(stk)) IN Decoded(decodeValue(b))

(* more() as it would be with next() in place of peek() *)
moreNext(b) ==
  LET Peeked(p) == Ret(p.c # "}" /\ p.c # "]", p.b)
  IN Peeked(BufNext(consumeWhitespace(b)))

more(b) ==
  LET Peeked(p) == Ret(p.c # "}" /\ p.c # "]", p.b)
  IN Peeked(BufPeek(consumeWhitespace(b)))

-----------------------------------------------------------------------------
(* Input documents: JSON values, their text, and the chunks of a source *)
Letters == <<"a", "b", "c", "d", "e", "f">>

KeyOf(i) == <<"k", Letters[i]>>     \* key of the i-th member of an object

Prims == {StrVal(<<"h", "i">>), NumVal(42, 0), BoolVal(TRUE), NullVal}

(* TreesOver(P, n): the values with exactly n nodes over the primitives   *)
(* P; ForestsOver(P, n): the sequences of values with n nodes in all      *)
RECURSIVE TreesOver(_, _), ForestsOver(_, _)
TreesOver(P, n) ==
  IF n = 0 THEN {}
  ELSE (IF n = 1 THEN P ELSE {})
       \cup {ArrVal(f) : f \in ForestsOver(P, n - 1)}
       \cup {ObjVal([i \in 1..Len(f) |-> <<KeyOf(i), f[i]>>]) : f \in ForestsOver(P, n - 1)}

ForestsOver(P, n) ==
  IF n = 0 THEN {<<>>}
  ELSE UNION {{<<t>> \o f : t \in TreesOver(P, m), f \in ForestsOver(P, n - m)} : m \in 1..n}

Trees(n) == TreesOver(Prims, n)

Docs == UNION {Trees(n) : n \in 1..MaxNodes}

(* JSON.stringify, and the same with a space after each "," and ":" *)
RECURSIVE NumText(_)
NumText(n) ==
  IF n < 10 THEN <<allowedNumbers[n + 1]>>
  ELSE Append(NumText(n \div 10), allowedNumbers[(n % 10) + 1])

RECURSIVE Escape(_)
Escape(s) ==
  IF s = <<>> THEN <<>>
  ELSE (IF Head(s) = Quote THEN <<Backslash, Quote>>
        ELSE IF Head(s) = Backslash THEN <<Backslash, Backslash>>
        ELSE IF Head(s) = Newline THEN <<Backslash, "n">>
        ELSE <<Head(s)>>) \o Escape(Tail(s))

StrText(s) == <<Quote>> \o Escape(s) \o <<Quote>>

RECURSIVE Stringify(_, _), Joined(_, _, _)
Stringify(v, sp) ==
  IF v.k = "str" THEN StrText(v.s)
  ELSE IF v.k = "num" THEN NumText(v.n)
  ELSE IF v.k = "bool" THEN (IF v.b THEN stringifiedTrue ELSE stringifiedFalse)
  ELSE IF v.k = "null" THEN stringifiedNull
  ELSE IF v.k = "arr" THEN <<"[">> \o Joined(v.a, sp, FALSE) \o <<"]">>
  ELSE <<"{">> \o Joined(v.o, sp, TRUE) \o <<"}">>

Joined(items, sp, members) ==
  LET One(x) ==
        IF members THEN StrText(x[1]) \o <<":">> \o sp \o Stringify(x[2], sp)
        ELSE Stringify(x, sp)
  IN IF items = <<>> THEN <<>>
     ELSE IF Len(items) = 1 THEN One(Head(items))
     ELSE One(Head(items)) \o <<",">> \o sp \o Joined(Tail(items), sp, members)

Compact(v) == Stringify(v, <<>>)
Spaced(v)  == Stringify(v, <<" ">>)

(* The ways a ReadableStream delivers a text: at once, in chunks of one   *)
(* size, or cut in two at any place                                       *)
RECURSIVE Uniform(_, _)
Uniform(t, size) ==
  IF Len(t) <= size THEN (IF t = <<>> THEN <<>> ELSE <<t>>)
  ELSE <<SubSeq(t, 1, size)>> \o Uniform(SubSeq(t, size + 1, Len(t)), size)

Chunkings(t) ==
  {<<t>>} \cup {Uniform(t, size) : size \in 1..MaxChunk}
          \cup {<<SubSeq(t, 1, i), SubSeq(t, i + 1, Len(t))>> : i \in 1..(Len(t) - 1)}

RECURSIVE Concat(_)
Concat(chunks) == IF chunks = <<>> THEN <<>> ELSE Head(chunks) \o Concat(Tail(chunks))

-----------------------------------------------------------------------------
(* The state machine: a caller holding a Decoder (or a StreamBuffer)      *)
Buf == [content |-> content, src |-> src, endless |-> endless]

Call(op, res) == [op |-> op, res |-> res, more |-> lastMore, pending |-> Top(stack)]

Token ==
  LET Returned(r) ==
        /\ content' = r.b.content
        /\ src' = r.b.src
        /\ stack' = r.stack
        /\ trace' = Append(trace, Call("token", r.res))
  IN /\ owner = "Decoder"
     /\ Returned(token(Buf, stack))
     /\ lastMore' = "none"
     /\ UNCHANGED <<frames, tree, input, owner, endless>>

Decode ==
  LET Returned(r) ==
        /\ content' = r.b.content
        /\ src' = r.b.src
        /\ stack' = r.stack
        /\ trace' = Append(trace, Call("decode", r.res))
  IN /\ owner = "Decoder"
     /\ Returned(decode(Buf, stack))
     /\ lastMore' = "none"
     /\ UNCHANGED <<frames, tree, input, owner, endless>>

More ==
  LET Returned(r) ==
        /\ content' = r.b.content
        /\ src' = r.b.src
        /\ lastMore' = IF r.res THEN "true" ELSE "false"
  IN /\ owner = "Decoder"
     /\ Returned(more(Buf))
     /\ UNCHANGED <<frames, tree, input, owner, endless, stack, trace>>

DecodeValue ==
  LET Returned(r) ==
        /\ content' = r.b.content
        /\ src' = r.b.src
        /\ trace' = Append(trace, Call("decodeValue", r.res))
  IN /\ owner = "StreamBuffer"
     /\ trace = <<>>
     /\ Returned(decodeValue(Buf))
     /\ UNCHANGED <<frames, tree, input, owner, endless, stack, lastMore>>

Text == Concat(input)

InitDecoder(v, chunks, pulls) ==
  /\ tree = v
  /\ input = chunks
  /\ owner = "Decoder"
  /\ content = <<>>
  /\ src = chunks
  /\ endless = pulls
  /\ stack = <<"value">>
  /\ trace = <<>>
  /\ lastMore = "none"
  /\ frames = <<>>

(* SpecTok: a Decoder over a complete document, driven by token() alone *)
InitTok ==
  \E v \in Docs : \E t \in {Compact(v), Spaced(v)} : \E chunks \in Chunkings(t) :
    InitDecoder(v, chunks, FALSE)

TokCalls == 3 * MaxNodes + 1    \* enough calls to finish any document of Docs

NextTok == Len(trace) < TokCalls /\ Token

SpecTok == InitTok /\ [][NextTok]_vars

-----------------------------------------------------------------------------
(* Properties of the token walk *)
Results == [i \in 1..Len(trace) |-> trace[i].res]

IsPrefix(a, b) == Len(a) <= Len(b) /\ \A i \in 1..Len(a) : a[i] = b[i]

Min(a, b) == IF a <= b THEN a ELSE b

OnlyTokens == \A i \in 1..Len(trace) : trace[i].op = "token"

(* The tokens of a value in document order *)
RECURSIVE ExpectedTokens(_), ExpectedItems(_, _)
ExpectedTokens(v) ==
  IF v.k = "arr" THEN <<openArray>> \o ExpectedItems(v.a, FALSE) \o <<closeArray>>
  ELSE IF v.k = "obj" THEN <<openObject>> \o ExpectedItems(v.o, TRUE) \o <<closeObject>>
  ELSE <<valueToken(v)>>

ExpectedItems(items, members) ==
  IF items = <<>> THEN <<>>
  ELSE (IF members THEN <<keyToken(Head(items)[1])>> \o ExpectedTokens(Head(items)[2])
        ELSE ExpectedTokens(Head(items)))
       \o ExpectedItems(Tail(items), members)

RECURSIVE NoEmptyContainer(_)
NoEmptyContainer(v) ==
  IF v.k = "arr" THEN v.a # <<>> /\ \A i \in 1..Len(v.a) : NoEmptyContainer(v.a[i])
  ELSE IF v.k = "obj" THEN v.o # <<>> /\ \A i \in 1..Len(v.o) : NoEmptyContainer(v.o[i][2])
  ELSE TRUE

(* C1: on a well-formed document whose arrays and objects are all         *)
(* non-empty, the i-th token() call returns the i-th token of the         *)
(* document in document order: Open at each opener, Key before each       *)
(* member value, Value for each primitive, Close at each closer.          *)
C1_TokenSequence ==
  (owner = "Decoder" /\ OnlyTokens /\ NoEmptyContainer(tree)) =>
    \A i \in 1..Min(Len(trace), Len(ExpectedTokens(tree))) :
      trace[i].res = ExpectedTokens(tree)[i]

C1_Witness ==
  /\ NoEmptyContainer(tree)
  /\ tree.k = "obj" /\ tree.o[1][2].k = "arr"
  /\ Text = Spaced(tree)
  /\ Len(trace) = Len(ExpectedTokens(tree))
  /\ Results = ExpectedTokens(tree)

(* C5: a token() call made with an empty continuation stack returns the   *)
(* end-of-file sentinel, reads nothing from the buffer and pushes          *)
(* nothing, so every later token() call returns the sentinel too.         *)
C5_EofSticky ==
  [][(stack = <<>> /\ Len(trace') = Len(trace) + 1 /\ trace'[Len(trace')].op = "token")
       => /\ trace'[Len(trace')].res = EOF
          /\ content' = content
          /\ src' = src
          /\ stack' = <<>>]_vars

C5_Witness ==
  /\ NoEmptyContainer(tree)
  /\ stack = <<>>
  /\ Len(trace) >= 3
  /\ trace[Len(trace)].res = EOF
  /\ trace[Len(trace) - 1].res = EOF
  /\ trace[Len(trace) - 2].res = closeArray

(* C6: tokenizing the empty object yields OpenObject, CloseObject and     *)
(* then the end-of-file sentinel.                                         *)
C6_EmptyObject ==
  (tree = ObjVal(<<>>) /\ OnlyTokens) =>
    \A i \in 1..Min(Len(trace), 3) : trace[i].res = <<openObject, closeObject, EOF>>[i]

(* C7: tokenizing the empty array yields OpenArray, CloseArray and then   *)
(* the end-of-file sentinel.                                              *)
C7_EmptyArray ==
  (tree = ArrVal(<<>>) /\ OnlyTokens) =>
    \A i \in 1..Min(Len(trace), 3) : trace[i].res = <<openArray, closeArray, EOF>>[i]

-----------------------------------------------------------------------------
(* Spec: a Decoder over a complete document, driven by token(), decode()  *)
(* and more() in any order                                                *)
ABC == ArrVal(<<StrVal(<<"a">>), StrVal(<<"b">>), StrVal(<<"c">>)>>)

FooBar ==
  ObjVal(<< <<<<"f", "o", "o">>,
              ArrVal(<<StrVal(<<"b", "a", "r">>), BoolVal(TRUE), NumVal(42, 0)>>)>> >>)

SmallDocs == UNION {Trees(n) : n \in 1..(MaxNodes - 1)}

Init ==
  \E v \in SmallDocs \cup {ABC, FooBar} : \E t \in {Compact(v), Spaced(v)} :
    \E chunks \in {<<t>>, Uniform(t, 1)} : InitDecoder(v, chunks, FALSE)

Next == Len(trace) < MaxCalls /\ (Token \/ Decode \/ More)

Spec == Init /\ [][Next]_vars

(* What n successive token() calls return on a fresh Decoder over input *)
RECURSIVE Walk(_, _, _)
Walk(b, stk, n) ==
  LET Step(r) == <<r.res>> \o Walk(r.b, r.stack, n - 1)
  IN IF n = 0 THEN <<>> ELSE Step(token(b, stk))

PureWalk(n) == Walk([content |-> <<>>, src |-> input, endless |-> endless], <<"value">>, n)

(* The value whose first token is the j-th token of v, if there is one *)
NoValue == [k |-> "none"]

RECURSIVE ValueAt(_, _), ItemAt(_, _, _)
ValueAt(v, j) ==
  IF j = 1 THEN v
  ELSE IF v.k = "arr" THEN ItemAt(v.a, FALSE, j - 1)
  ELSE IF v.k = "obj" THEN ItemAt(v.o, TRUE, j - 1)
  ELSE NoValue

ItemAt(items, members, j) ==
  LET In(h, at) ==
        IF at <= 0 THEN NoValue
        ELSE IF at <= Len(ExpectedTokens(h)) THEN ValueAt(h, at)
        ELSE ItemAt(Tail(items), members, at - Len(ExpectedTokens(h)))
  IN IF items = <<>> THEN NoValue
     ELSE IF members THEN In(Head(items)[2], j - 1)
     ELSE In(Head(items), j)

(* The trace is token() calls with a single decode(), the j-th call *)
DecodeAt(j) ==
  /\ trace[j].op = "decode"
  /\ \A i \in 1..Len(trace) : i # j => trace[i].op = "token"

(* decode() is the j-th call, made directly after OpenArray or a Key with *)
(* a value step pending, before a value d that a token() walk tokenizes   *)
ValuePending(j, d) ==
  /\ DecodeAt(j)
  /\ trace[j].pending = "value"
  /\ trace[j - 1].res \in {openArray} \cup {keyToken(KeyOf(i)) : i \in 1..MaxNodes}
                          \cup {keyToken(<<"f", "o", "o">>)}
  /\ \A i \in 1..(j - 1) : trace[i].res = ExpectedTokens(tree)[i]
  /\ d # NoValue
  /\ SubSeq(PureWalk(j + Len(ExpectedTokens(d)) - 1), j, j + Len(ExpectedTokens(d)) - 1)
       = ExpectedTokens(d)

DecodeSwitch(j, d) ==
  /\ trace[j].res = d
  /\ \A i \in (j + 1)..Len(trace) :
       trace[i].res = PureWalk(i + Len(ExpectedTokens(d)) - 1)[i + Len(ExpectedTokens(d)) - 1]

(* C2: on ["a","b","c"], after token() returned OpenArray, the loop       *)
(* while (more()) decode() returns "a", "b", "c" in that order and stops, *)
(* and the token() call after it returns CloseArray.                      *)
C2_MoreDecodeLoop ==
  ( /\ tree = ABC
    /\ trace # <<>>
    /\ trace[1].op = "token"
    /\ \A i \in 2..Len(trace) :
         \/ trace[i].op = "decode" /\ trace[i].more = "true"
         \/ i = Len(trace) /\ trace[i].op = "token" /\ trace[i].more = "false" )
  => /\ trace[1].res = openArray
     /\ \A i \in 2..Len(trace) :
          IF trace[i].op = "decode"
            THEN i <= 4 /\ trace[i].res = ABC.a[i - 1]
            ELSE i = 5 /\ trace[i].res = closeArray
     /\ (Len(trace) = 4 /\ trace[4].op = "decode") => lastMore # "true"

(* C3: a decode() call made while a value step is pending, directly after *)
(* OpenArray or a Key, returns the whole next value, and every later      *)
(* token() call returns what a pure token() walk returns once it has      *)
(* tokenized that same value.                                             *)
C3_DecodeSwitch ==
  \A j \in 2..Len(trace) :
    ValuePending(j, ValueAt(tree, j)) => DecodeSwitch(j, ValueAt(tree, j))

C3_Witness ==
  /\ tree = FooBar
  /\ Len(trace) = 5
  /\ ValuePending(4, StrVal(<<"b", "a", "r">>))
  /\ trace[4].res = StrVal(<<"b", "a", "r">>)
  /\ trace[5].res = valueToken(BoolVal(TRUE))

-----------------------------------------------------------------------------
(* SpecMore: a Decoder driven by token() and more(), over a document,     *)
(* complete or cut short, or over a source that enqueues "[" and then, at *)
(* every pull, one more element                                           *)
Endless == [k |-> "endless"]

Prefixes(t) == {SubSeq(t, 1, n) : n \in 1..Len(t)}

Texts == UNION {Prefixes(Spaced(v)) : v \in SmallDocs \cup {FooBar}}

InitMore ==
  \/ \E v \in Docs : \E chunks \in {<<Compact(v)>>, Uniform(Spaced(v), 1)} :
       InitDecoder(v, chunks, FALSE)
  \/ \E t \in Texts : InitDecoder(NoValue, <<t>>, FALSE)
  \/ InitDecoder(Endless, << <<"[">> >>, TRUE)

NextMore == Len(trace) < MaxCalls /\ (Token \/ More)

SpecMore == InitMore /\ [][NextMore]_vars

Opened == Cardinality({i \in 1..Len(trace) : trace[i].res \in {openArray, openObject}})

Closed == Cardinality({i \in 1..Len(trace) : trace[i].res \in {closeArray, closeObject}})

Depth == Opened - Closed

IsValueToken(r) == r.k = "tok" /\ r.kind = "VALUE"

FlatArray ==
  /\ trace # <<>>
  /\ trace[1].res = openArray
  /\ \A i \in 2..Len(trace) : IsValueToken(trace[i].res)

(* C4: after any sequence of token() and more() calls the continuation    *)
(* stack holds at most (nesting depth + 2) steps, and while the elements  *)
(* of a flat top-level array are tokenized it holds at most 2, whatever   *)
(* the number of elements emitted and still to come.                      *)
C4_StackBound ==
  OnlyTokens => /\ Len(stack) <= Depth + 2
                /\ FlatArray => Len(stack) <= 2

C4_Witness ==
  /\ tree = Endless
  /\ FlatArray
  /\ Len(trace) = MaxCalls
  /\ \A i \in 2..Len(trace) : trace[i].more = "true"
  /\ Len(stack) = 1
  /\ trace[Len(trace)].res = valueToken(StrVal(<<"f", "o", "o">>))

-----------------------------------------------------------------------------
(* SpecDV: decodeValue on a StreamBuffer over the text of a value, in its *)
(* compact serialization or with whitespace around structural characters *)
Escapes ==
  {StrVal(<<>>), StrVal(<<Quote>>), StrVal(<<Backslash, "n">>), StrVal(<<"a", Newline>>),
   StrVal(<<Backslash, Quote, "n">>)}

Numbers == {NumVal(0, 0), NumVal(7, 0), NumVal(100, 0)}

Values == UNION {TreesOver(Prims \cup Escapes \cup Numbers \cup {BoolVal(FALSE)}, n) : n \in 1..MaxNodes}

(* The text of v with l before and r after every structural character *)
RECURSIVE Padded(_, _, _), PaddedItems(_, _, _, _)
Padded(v, l, r) ==
  IF v.k = "arr"
    THEN l \o <<"[">> \o r \o PaddedItems(v.a, FALSE, l, r) \o l \o <<"]">> \o r
  ELSE IF v.k = "obj"
    THEN l \o <<"{">> \o r \o PaddedItems(v.o, TRUE, l, r) \o l \o <<"}">> \o r
  ELSE Compact(v)

PaddedItems(items, members, l, r) ==
  LET One(x) ==
        IF members THEN StrText(x[1]) \o l \o <<":">> \o r \o Padded(x[2], l, r)
        ELSE Padded(x, l, r)
  IN IF items = <<>> THEN <<>>
     ELSE IF Len(items) = 1 THEN One(Head(items))
     ELSE One(Head(items)) \o l \o <<",">> \o r \o PaddedItems(Tail(items), members, l, r)

Pads == {<<>>, <<" ">>, <<"\t", "\n">>, <<"\r", " ">>}

Paddings(v) == {Padded(v, l, r) : l \in Pads, r \in Pads}

InitBuffer(v, chunks) ==
  /\ tree = v
  /\ input = chunks
  /\ owner = "StreamBuffer"
  /\ content = <<>>
  /\ src = chunks
  /\ endless = FALSE
  /\ stack = <<>>
  /\ trace = <<>>
  /\ lastMore = "none"
  /\ frames = <<>>

InitDV ==
  \E v \in Values : \E t \in Paddings(v) : \E chunks \in {<<t>>, Uniform(t, MaxChunk)} :
    InitBuffer(v, chunks)

NextDV == DecodeValue

SpecDV == InitDV /\ [][NextDV]_vars

Decoded == trace # <<>> /\ trace[1].op = "decodeValue"

(* C8: decodeValue applied to the compact JSON serialization of a value   *)
(* built from strings with the recognised escapes, non-negative integers, *)
(* booleans, null and nested arrays and objects returns that value.       *)
C8_RoundTrip == (Decoded /\ Text = Compact(tree)) => trace[1].res = tree

C8_Witness ==
  /\ Decoded
  /\ Text = Compact(tree)
  /\ tree = ObjVal(<< <<KeyOf(1), ArrVal(<<StrVal(<<Backslash, Quote, "n">>)>>)>> >>)
  /\ trace[1].res = tree

(* C9: whitespace (space, tab, CR, LF) before or after any structural     *)
(* character of a well-formed document, including between the brackets of *)
(* an empty array or object, does not change what decodeValue returns.    *)
C9_WhitespaceInsensitive == (Decoded /\ Text \in Paddings(tree)) => trace[1].res = tree

-----------------------------------------------------------------------------
(* SpecChunk: one text, complete or cut short, delivered in any of its    *)
(* chunkings to a Decoder driven by token() or to decodeValue             *)
InitChunk ==
  \E t \in Texts : \E chunks \in Chunkings(t) :
    \/ InitDecoder(NoValue, chunks, FALSE)
    \/ InitBuffer(NoValue, chunks)

NextChunk == (Len(trace) < TokCalls /\ Token) \/ DecodeValue

SpecChunk == InitChunk /\ [][NextChunk]_vars

(* The buffer over the same text delivered as a single chunk *)
Whole == [content |-> <<>>, src |-> <<Text>>, endless |-> FALSE]

(* C10: for a fixed text, the results of successive token() calls and the *)
(* value decodeValue returns are the same however the text is split into  *)
(* chunks, one character per chunk included.                              *)
C10_ChunkIndependent ==
  /\ owner = "Decoder" => Results = Walk(Whole, <<"value">>, Len(trace))
  /\ (owner = "StreamBuffer" /\ Decoded) => trace[1].res = decodeValue(Whole).res

C10_Witness ==
  /\ owner = "Decoder"
  /\ Text = Spaced(FooBar)
  /\ input = Uniform(Text, 1)
  /\ Len(trace) = Len(ExpectedTokens(FooBar))
  /\ Results = ExpectedTokens(FooBar)

-----------------------------------------------------------------------------
(* SpecBuf: a StreamBuffer over a source that delivers up to MaxPulls     *)
(* chunks, zero-length ones included, and then closes; the caller calls   *)
(* peek() and next() in any order                                         *)
MaxPulls == 3

Pieces == {<<>>, <<"a">>, <<"b", "c">>}

Sources == UNION {[1..n -> Pieces] : n \in 0..MaxPulls}

Peek ==
  LET Returned(r) ==
        /\ content' = r.b.content
        /\ src' = r.b.src
        /\ trace' = Append(trace, Call("peek", r.c))
  IN /\ owner = "StreamBuffer"
     /\ Returned(BufPeek(Buf))
     /\ UNCHANGED <<frames, tree, input, owner, endless, stack, lastMore>>

NextChar ==
  LET Returned(r) ==
        /\ content' = r.b.content
        /\ src' = r.b.src
        /\ trace' = Append(trace, Call("next", r.c))
  IN /\ owner = "StreamBuffer"
     /\ Returned(BufNext(Buf))
     /\ UNCHANGED <<frames, tree, input, owner, endless, stack, lastMore>>

InitBuf == \E chunks \in Sources : InitBuffer(NoValue, chunks)

NextBuf == Len(trace) < MaxCalls /\ (Peek \/ NextChar)

SpecBuf == InitBuf /\ [][NextBuf]_vars

(* Number of next() calls among the first i calls *)
RECURSIVE Advanced(_)
Advanced(i) ==
  IF i = 0 THEN 0 ELSE Advanced(i - 1) + (IF trace[i].op = "next" THEN 1 ELSE 0)

(* The character at position p of the concatenated text, "" past its end *)
CharOrEnd(p) == IF p <= Len(Text) THEN Text[p] ELSE EOS

(* The chunk the reader delivered last *)
LastPulled == IF Len(src) = Len(input) THEN <<>> ELSE input[Len(input) - Len(src)]

IsSuffix(a, b) == Len(a) <= Len(b) /\ SubSeq(b, Len(b) - Len(a) + 1, Len(b)) = a

Called == Len(trace') = Len(trace) + 1

(* C11: peek() does not advance the buffer: a call that follows a peek()  *)
(* returns what that peek() returned, be it another peek() or the next(). *)
C11_PeekKeepsPosition ==
  \A i \in 2..Len(trace) : trace[i - 1].op = "peek" => trace[i].res = trace[i - 1].res

(* C12: whatever the chunks, zero-length ones included, every peek() and  *)
(* next() returns the next unread character of the concatenated text, or  *)
(* "" once the text is used up, so the next() results spell the text.     *)
C12_OneCharacterPerRead ==
  \A i \in 1..Len(trace) : trace[i].res = CharOrEnd(Advanced(i - 1) + 1)

(* C13: once the source has completed and content is empty, every peek()  *)
(* and next() returns "" and leaves the buffer as it is, so all later     *)
(* calls do the same.                                                     *)
C13_EndIsSticky ==
  [][(Called /\ src = <<>> /\ content = <<>>)
       => (trace'[Len(trace')].res = EOS /\ content' = <<>> /\ src' = <<>>)]_vars

C13_Witness ==
  /\ owner = "StreamBuffer"
  /\ Text # <<>>
  /\ src = <<>> /\ content = <<>>
  /\ Len(trace) = Len(Text) + 2
  /\ trace[Len(trace) - 1].op = "peek" /\ trace[Len(trace) - 1].res = EOS
  /\ trace[Len(trace)].op = "next" /\ trace[Len(trace)].res = EOS

(* C14: the reader is read only by a peek() or next() that finds content  *)
(* empty, at most once per call, and content is always a suffix of the    *)
(* chunk delivered last.                                                  *)
C14_OneChunkHeld ==
  /\ [](IsSuffix(content, LastPulled))
  /\ [][/\ content # <<>> => src' = src
        /\ Len(src') >= Len(src) - 1]_vars

C14_Witness ==
  /\ owner = "StreamBuffer"
  /\ input = <<<<"a">>, <<"b", "c">>, <<"a">>>>
  /\ Len(src) = 1
  /\ content = <<"c">>
  /\ trace[Len(trace)].op = "next"

-----------------------------------------------------------------------------
(* decode() and more() between the elements of an array *)
IsPrimitive(v) == v.k \in {"str", "num", "bool", "null"}

FlatDocument ==
  /\ owner = "Decoder"
  /\ tree.k = "arr"
  /\ \A k \in 1..Len(tree.a) : IsPrimitive(tree.a[k])

(* C17: decode() skips whitespace and a "," before it decodes, so that    *)
(* after OpenArray the k-th call, when it is a decode(), returns the k-th *)
(* element, the calls before it having read one element each.            *)
C17_DecodeSkipsComma ==
  (FlatDocument /\ trace # <<>> /\ trace[1].op = "token") =>
    \A i \in 2..Min(Len(trace), Len(tree.a) + 1) :
      trace[i].op = "decode" => trace[i].res = tree.a[i - 1]

(* C18: when more() has returned true, the token() call that follows it   *)
(* returns a token or a syntax error, never the end-of-file sentinel.     *)
C18_MoreMeansToken ==
  \A i \in 1..Len(trace) :
    (trace[i].op = "token" /\ trace[i].more = "true") => trace[i].res # EOF

-----------------------------------------------------------------------------
(* SpecText: one decoder called on a StreamBuffer over a text that need   *)
(* not be well-formed: runs of digits and ".", strings with or without    *)
(* their closing quote, documents with one character replaced            *)
MaxLen == 5

RECURSIVE TextsOver(_, _)
TextsOver(A, n) ==
  IF n = 0 THEN {<<>>} ELSE {<<c>> \o t : c \in A, t \in TextsOver(A, n - 1)}

NumberTexts ==
  UNION {{<<c>> \o t : c \in {"0", "5", "."}, t \in TextsOver({"0", "5", ".", ","}, n)} :
           n \in 0..(MaxLen - 1)}

StringTexts ==
  UNION {{<<Quote>> \o t : t \in TextsOver({"a", "n", Quote, Backslash}, n)} :
           n \in 0..(MaxLen - 1)}

Corrupt(t, i) == [t EXCEPT ![i] = "x"]

BadTexts ==
  {<<"b", "a", "d">>}
    \cup UNION {{Corrupt(Compact(v), i) : i \in 1..Len(Compact(v))} : v \in SmallDocs}

DecodeNumber ==
  LET Returned(r) ==
        /\ content' = r.b.content
        /\ src' = r.b.src
        /\ trace' = Append(trace, Call("decodeNumber", r.res))
  IN /\ owner = "StreamBuffer"
     /\ trace = <<>>
     /\ Returned(decodeNumber(Buf))
     /\ UNCHANGED <<frames, tree, input, owner, endless, stack, lastMore>>

DecodeString ==
  LET Returned(r) ==
        /\ content' = r.b.content
        /\ src' = r.b.src
        /\ trace' = Append(trace, Call("decodeString", r.res))
  IN /\ owner = "StreamBuffer"
     /\ trace = <<>>
     /\ Returned(decodeString(Buf))
     /\ UNCHANGED <<frames, tree, input, owner, endless, stack, lastMore>>

InitText ==
  \E t \in NumberTexts \cup StringTexts \cup BadTexts : \E chunks \in Chunkings(t) :
    InitBuffer(NoValue, chunks)

NextText == DecodeValue \/ DecodeNumber \/ DecodeString

SpecText == InitText /\ [][NextText]_vars

Returned(op) == trace # <<>> /\ trace[1].op = op

(* C15: a malformed input makes a decoder resolve to an Error value; no   *)
(* call rejects, not even when the next character starts no value kind.   *)
C15_ErrorsAreValues == \A i \in 1..Len(trace) : ~IsThrown(trace[i].res)

(* An array or object with an Error among its elements or member values *)
RECURSIVE HoldsError(_)
HoldsError(v) ==
  IF v.k = "arr" THEN \E i \in 1..Len(v.a) : IsError(v.a[i]) \/ HoldsError(v.a[i])
  ELSE IF v.k = "obj" THEN \E i \in 1..Len(v.o) : IsError(v.o[i][2]) \/ HoldsError(v.o[i][2])
  ELSE FALSE

(* C16: a decoder whose sub-decoder returned an Error returns that Error: *)
(* decodeValue never returns an array or object that holds an Error.      *)
C16_ErrorsPropagate == Returned("decodeValue") => ~HoldsError(trace[1].res)

(* The leading run of digits and "." of a text *)
RECURSIVE NumberRun(_)
NumberRun(t) ==
  IF t # <<>> /\ (isNumber(Head(t)) \/ Head(t) = ".")
    THEN <<Head(t)>> \o NumberRun(Tail(t))
    ELSE <<>>

Dots(s) == Cardinality({i \in 1..Len(s) : s[i] = "."})

(* C19: decodeNumber returns UnexpectedToken for a "." that comes first   *)
(* and for the second "." of a run, and the numeric value of the run of   *)
(* digits and "." otherwise.                                              *)
C19_NumberOrDotError ==
  (Returned("decodeNumber") /\ Text \in NumberTexts) =>
    trace[1].res = IF Head(Text) = "." \/ Dots(NumberRun(Text)) >= 2
                     THEN unexpectedToken(".")
                     ELSE parseFloat(NumberRun(Text))

C19_Witness ==
  /\ Returned("decodeNumber")
  /\ Text = <<"5", ".", "5", ",">>
  /\ input = Uniform(Text, 1)
  /\ trace[1].res = NumVal(55, 1)

(* A closing quote at or after position i, a backslash escaping whatever  *)
(* character follows it                                                   *)
RECURSIVE ClosedFrom(_, _, _)
ClosedFrom(t, i, esc) ==
  IF i > Len(t) THEN FALSE
  ELSE IF esc THEN ClosedFrom(t, i + 1, FALSE)
  ELSE IF t[i] = Backslash THEN ClosedFrom(t, i + 1, TRUE)
  ELSE IF t[i] = Quote THEN TRUE
  ELSE ClosedFrom(t, i + 1, FALSE)

(* C20: decodeString returns UnexpectedEndOfInput when the stream ends    *)
(* before an unescaped closing quote, however the text is chunked.        *)
C20_UnterminatedString ==
  (Returned("decodeString") /\ Text \in StringTexts /\ ~ClosedFrom(Text, 2, FALSE)) =>
    trace[1].res = unexpectedEnd

-----------------------------------------------------------------------------
(* SpecParts: one of decodeBoolean, decodeNull, decodeArray, decodeObject *)
(* and whichJSONValue called on a StreamBuffer over a literal, an array   *)
(* or an object, complete, cut short or with a character replaced         *)
Literals == {stringifiedTrue, stringifiedFalse, stringifiedNull}

LiteralTexts ==
  UNION {Prefixes(l) \cup {Corrupt(l, i) : i \in 1..Len(l)} \cup {l \o <<",">>} : l \in Literals}

(* Objects written with members that may repeat a key *)
Members ==
  UNION {[1..n -> {<<KeyOf(i), v>> : i \in 1..2, v \in {NumVal(7, 0), NullVal}}] :
           n \in 0..MaxNodes}

Arrays == {v \in SmallDocs : v.k = "arr"} \cup {ABC}

TrailingComma(v) == SubSeq(Compact(v), 1, Len(Compact(v)) - 1) \o <<",", "]">>

TrailingCommaTexts == {TrailingComma(v) : v \in {a \in Arrays : a.a # <<>>}}

(* A text that ends inside the production it opens *)
CutShort(t) == {SubSeq(t, 1, n) : n \in 1..(Len(t) - 1)}

CutArrays == UNION {CutShort(Compact(v)) : v \in Arrays}

CutObjects == UNION {CutShort(Compact(ObjVal(m))) : m \in {x \in Members : Len(x) <= 1}}

DecodeBoolean ==
  LET Resolved(r) ==
        /\ content' = r.b.content
        /\ src' = r.b.src
        /\ trace' = Append(trace, Call("decodeBoolean", r.res))
  IN /\ owner = "StreamBuffer"
     /\ trace = <<>>
     /\ Resolved(decodeBoolean(Buf))
     /\ UNCHANGED <<frames, tree, input, owner, endless, stack, lastMore>>

DecodeNull ==
  LET Resolved(r) ==
        /\ content' = r.b.content
        /\ src' = r.b.src
        /\ trace' = Append(trace, Call("decodeNull", r.res))
  IN /\ owner = "StreamBuffer"
     /\ trace = <<>>
     /\ Resolved(decodeNull(Buf))
     /\ UNCHANGED <<frames, tree, input, owner, endless, stack, lastMore>>

DecodeArray ==
  LET Resolved(r) ==
        /\ content' = r.b.content
        /\ src' = r.b.src
        /\ trace' = Append(trace, Call("decodeArray", r.res))
  IN /\ owner = "StreamBuffer"
     /\ trace = <<>>
     /\ Resolved(decodeArray(Buf))
     /\ UNCHANGED <<frames, tree, input, owner, endless, stack, lastMore>>

DecodeObject ==
  LET Resolved(r) ==
        /\ content' = r.b.content
        /\ src' = r.b.src
        /\ trace' = Append(trace, Call("decodeObject", r.res))
  IN /\ owner = "StreamBuffer"
     /\ trace = <<>>
     /\ Resolved(decodeObject(Buf))
     /\ UNCHANGED <<frames, tree, input, owner, endless, stack, lastMore>>

WhichJSONValue ==
  LET Resolved(r) ==
        /\ content' = r.b.content
        /\ src' = r.b.src
        /\ trace' = Append(trace, Call("whichJSONValue", r.res))
  IN /\ owner = "StreamBuffer"
     /\ trace = <<>>
     /\ Resolved(whichJSONValue(Buf))
     /\ UNCHANGED <<frames, tree, input, owner, endless, stack, lastMore>>

Deliveries(t) == {<<t>>, Uniform(t, 1), Uniform(t, MaxChunk)}

InitParts ==
  \/ \E t \in LiteralTexts \cup TrailingCommaTexts \cup CutArrays \cup CutObjects \cup BadTexts :
       \E chunks \in Deliveries(t) : InitBuffer(NoValue, chunks)
  \/ \E m \in Members : \E t \in {Compact(ObjVal(m)), Spaced(ObjVal(m))} :
       \E chunks \in Deliveries(t) : InitBuffer(ObjVal(m), chunks)
  \/ InitBuffer(NoValue, <<>>)

NextParts == DecodeBoolean \/ DecodeNull \/ DecodeArray \/ DecodeObject \/ WhichJSONValue

SpecParts == InitParts /\ [][NextParts]_vars

-----------------------------------------------------------------------------
(* The characters of a string from position i up to its closing quote,    *)
(* a backslash standing for the character after it ("n" for a newline)    *)
RECURSIVE Verbatim(_, _, _)
Verbatim(t, i, esc) ==
  IF i > Len(t) THEN <<>>
  ELSE IF esc THEN <<(IF t[i] = "n" THEN Newline ELSE t[i])>> \o Verbatim(t, i + 1, FALSE)
  ELSE IF t[i] = Backslash THEN Verbatim(t, i + 1, TRUE)
  ELSE IF t[i] = Quote THEN <<>>
  ELSE <<t[i]>> \o Verbatim(t, i + 1, FALSE)

(* C21: after a backslash, a character other than quote, backslash and n  *)
(* is kept as it is and scanning resumes unescaped after it, so that the  *)
(* closing quote still ends the string.                                   *)
C21_UnknownEscapeKept ==
  (Returned("decodeString") /\ Text \in StringTexts /\ ClosedFrom(Text, 2, FALSE)) =>
    trace[1].res = StrVal(Verbatim(Text, 2, FALSE))

(* What reading the literal lit from the text t gives: val, or the error  *)
(* at the first place where t ends or differs                             *)
Differs(t, lit) == {i \in 1..Len(lit) : i > Len(t) \/ t[i] # lit[i]}

FirstOf(S) == CHOOSE i \in S : \A j \in S : i <= j

ExpectedLiteral(t, lit, val) ==
  IF Differs(t, lit) = {} THEN val
  ELSE IF FirstOf(Differs(t, lit)) > Len(t) THEN unexpectedEnd
  ELSE unexpectedToken(t[FirstOf(Differs(t, lit))])

(* C22: decodeBoolean returns true for true and false for false, returns  *)
(* UnexpectedToken(c) for a character c that differs from the literal,    *)
(* and UnexpectedEndOfInput when the stream ends inside the literal.      *)
C22_BooleanOrError ==
  (Returned("decodeBoolean") /\ Text \in LiteralTexts) =>
    trace[1].res = IF Head(Text) = "t"
                     THEN ExpectedLiteral(Text, stringifiedTrue, BoolVal(TRUE))
                     ELSE ExpectedLiteral(Text, stringifiedFalse, BoolVal(FALSE))

(* C23: decodeNull returns null for null, UnexpectedToken(c) for a        *)
(* character c that differs from the literal, and UnexpectedEndOfInput    *)
(* when the stream ends before the fourth character.                      *)
C23_NullOrError ==
  (Returned("decodeNull") /\ Text \in LiteralTexts) =>
    trace[1].res = ExpectedLiteral(Text, stringifiedNull, NullVal)

C23_Witness ==
  /\ Returned("decodeNull")
  /\ Text = <<"n", "u", "l">>
  /\ input = Uniform(Text, 1)
  /\ trace[1].res = unexpectedEnd

(* C24: decodeArray on an array with a comma before its closing bracket   *)
(* returns an UnexpectedToken error.                                      *)
C24_TrailingComma ==
  (Returned("decodeArray") /\ Text \in TrailingCommaTexts) =>
    (IsError(trace[1].res) /\ trace[1].res.e = "unexpectedToken")

(* C25: decodeArray and decodeObject return UnexpectedEndOfInput when the *)
(* source is exhausted inside the array or object.                        *)
C25_EndInsideContainer ==
  /\ (Returned("decodeArray") /\ Text \in CutArrays) => trace[1].res = unexpectedEnd
  /\ (Returned("decodeObject") /\ Text \in CutObjects) => trace[1].res = unexpectedEnd

(* The position of the last member of m written with the key key *)
LastWith(m, key) == CHOOSE j \in 1..Len(m) : m[j][1] = key /\ \A l \in (j + 1)..Len(m) : m[l][1] # key

(* C26: decodeObject returns a mapping whose keys are exactly the keys    *)
(* written in the text, each with the value of its last occurrence.       *)
C26_LastKeyWins ==
  (Returned("decodeObject") /\ tree.k = "obj") =>
    /\ trace[1].res.k = "obj"
    /\ {trace[1].res.o[i][1] : i \in 1..Len(trace[1].res.o)} = {tree.o[j][1] : j \in 1..Len(tree.o)}
    /\ \A i, l \in 1..Len(trace[1].res.o) : trace[1].res.o[i][1] = trace[1].res.o[l][1] => i = l
    /\ \A i \in 1..Len(trace[1].res.o) :
         trace[1].res.o[i][2] = tree.o[LastWith(tree.o, trace[1].res.o[i][1])][2]

C26_Witness ==
  /\ Returned("decodeObject")
  /\ tree = ObjVal(<< <<KeyOf(1), NumVal(7, 0)>>, <<KeyOf(2), NullVal>>, <<KeyOf(1), NullVal>> >>)
  /\ trace[1].res = ObjVal(<< <<KeyOf(1), NullVal>>, <<KeyOf(2), NullVal>> >>)

(* The kind that the character c starts *)
KindOf(c) ==
  IF c = Quote THEN Kind("JSONString")
  ELSE IF isNumber(c) THEN Kind("JSONNumber")
  ELSE IF c \in {"t", "f"} THEN Kind("JSONBoolean")
  ELSE IF c = "n" THEN Kind("JSONNull")
  ELSE IF c = "[" THEN Kind("JSONArray")
  ELSE IF c = "{" THEN Kind("JSONObject")
  ELSE Thrown(unknownStart(c))

(* C27: whichJSONValue returns the kind the next character starts,        *)
(* signals an unknown start for any other character and at the end of     *)
(* the stream, and leaves every character in the buffer.                  *)
C27_KindByNextChar ==
  Returned("whichJSONValue") =>
    /\ trace[1].res = KindOf(IF Text = <<>> THEN EOS ELSE Head(Text))
    /\ content \o Concat(src) = Text

C27_Witness ==
  /\ Returned("whichJSONValue")
  /\ Text \in CutObjects
  /\ input = Uniform(Text, 1)
  /\ Len(input) > 1
  /\ trace[1].res = Kind("JSONObject")
  /\ content = <<"{">>

-----------------------------------------------------------------------------
(* The text not yet read holds nothing but whitespace *)
Consumed == \A i \in 1..Len(content \o Concat(src)) : isWhitespace((content \o Concat(src))[i])

(* C28: in every state reached by token() calls on a well-formed          *)
(* document, running the continuation stack from its top yields exactly   *)
(* the tokens that complete the document; a key step lies only directly   *)
(* above a value step directly above an endObjectOrValue step; and the    *)
(* stack is empty exactly when the top-level value is fully consumed.     *)
C28_StackCompletesDocument ==
  (owner = "Decoder" /\ OnlyTokens /\ Len(trace) <= Len(ExpectedTokens(tree))) =>
    /\ Results \o Walk(Buf, stack, Len(ExpectedTokens(tree)) - Len(trace)) = ExpectedTokens(tree)
    /\ \A i \in 1..Len(stack) :
         stack[i] = "key" => (i >= 3 /\ stack[i - 1] = "value" /\ stack[i - 2] = "endObjectOrValue")
    /\ (stack = <<>>) <=> Consumed


(* C29: a decode() call discards only a pending value step, never an      *)
(* endArrayOrValue, endObjectOrValue or key step.                         *)
C29_DecodeDiscardsOnlyValue ==
  \A i \in 1..Len(trace) :
    trace[i].op = "decode" => trace[i].pending \in {"value", "none"}


(* The text not yet read, and what follows its leading whitespace *)
Rest == content \o Concat(src)

RECURSIVE Trimmed(_)
Trimmed(t) == IF t # <<>> /\ isWhitespace(Head(t)) THEN Trimmed(Tail(t)) ELSE t

Ahead == IF endless /\ Trimmed(Rest) = <<>> THEN PullChunk ELSE Trimmed(Rest)

WhitespaceBefore(t, n) == \A i \in 1..n : isWhitespace(t[i])

(* The tokens so far are tokens of the document, the last of them ends an *)
(* element, and a container is still open                                 *)
PostElement ==
  /\ tree \notin {NoValue, Endless}
  /\ trace # <<>>
  /\ IsPrefix(Results, ExpectedTokens(tree))
  /\ (IsValueToken(trace[Len(trace)].res) \/ trace[Len(trace)].res \in {closeArray, closeObject})
  /\ Depth > 0

(* A step that is a call of more() *)
MoreStep == trace' = trace /\ lastMore' \in {"true", "false"}

MoreFrame ==
  MoreStep =>
    /\ stack' = stack
    /\ \E n \in 0..Len(Rest) :
         /\ WhitespaceBefore(Rest, n)
         /\ Rest' \in {SubSeq(Rest, n + 1, Len(Rest))} \cup
                      (IF endless THEN {SubSeq(Rest, n + 1, Len(Rest)) \o PullChunk} ELSE {})
    /\ (lastMore' = "false") <=> (Ahead # <<>> /\ Head(Ahead) \in {"]", "}"})
    /\ PostElement => ((lastMore' = "true") <=> (Ahead # <<>> /\ Head(Ahead) = ","))

(* C30: more() leaves the continuation stack unchanged and consumes no    *)
(* character other than leading whitespace; it returns false exactly when *)
(* the next non-whitespace character is "]" or "}"; and the results of    *)
(* token() calls are those of the same calls without more() in between.   *)
C30_MoreIsPure ==
  /\ [](Results = PureWalk(Len(trace)))
  /\ [][MoreFrame]_vars

C30_Witness ==
  /\ tree.k = "arr" /\ Len(tree.a) = 2
  /\ input = Uniform(Spaced(tree), 1)
  /\ Len(trace) = 3
  /\ trace[2].more = "true"
  /\ trace[3].more = "true"
  /\ lastMore = "false"
  /\ Results = SubSeq(ExpectedTokens(tree), 1, 3)
  /\ PostElement
  /\ Len(stack) = 1

-----------------------------------------------------------------------------
(* SpecBad: token() on a Decoder, or decodeObject on a StreamBuffer, over  *)
(* a text that need not be well-formed: a document, compact or with       *)
(* whitespace around its structural characters, with one character        *)
(* replaced or one character left out                                     *)
Dropped(t, i) == SubSeq(t, 1, i - 1) \o SubSeq(t, i + 1, Len(t))

Layouts(v) == {Compact(v), Padded(v, <<" ">>, <<"\n">>)}

Damaged(t) == {t} \cup {Corrupt(t, i) : i \in 1..Len(t)} \cup {Dropped(t, i) : i \in 1..Len(t)}

DamagedTexts == UNION {Damaged(t) : t \in UNION {Layouts(v) : v \in Docs}}

InitBad ==
  \E t \in DamagedTexts : \E chunks \in {<<t>>, Uniform(t, 1)} :
    \/ InitDecoder(NoValue, chunks, FALSE)
    \/ InitBuffer(NoValue, chunks)

NextBad == (Len(trace) < TokCalls /\ Token) \/ DecodeObject

SpecBad == InitBad /\ [][NextBad]_vars

(* The next character that is not whitespace, "" at the end of the text *)
NextVisible == IF Trimmed(Rest) = <<>> THEN EOS ELSE Head(Trimmed(Rest))

LastResult == trace[Len(trace)].res

(* A token() call made with the step fn on top of the stack while the     *)
(* next visible character is a character outside closers                  *)
Unexpected(fn, closers) ==
  /\ Top(stack) = fn
  /\ NextVisible \notin closers \cup {EOS}
  /\ trace' # trace

(* C31: the endArrayOrValue step (endObjectOrValue step) returns          *)
(* UnexpectedToken(c) when the next non-whitespace character c is neither *)
(* "]" ("}") nor ","; it then consumes the skipped whitespace only and    *)
(* pushes nothing on the stack.                                           *)
C31_UnexpectedSeparator ==
  [][(Unexpected("endArrayOrValue", {"]", ","}) \/ Unexpected("endObjectOrValue", {"}", ","})) =>
       /\ LastResult' = unexpectedToken(NextVisible)
       /\ Rest' = Trimmed(Rest)
       /\ stack' = Pop(stack)]_vars

C31_Witness ==
  /\ Len(trace) = 3
  /\ trace[1].res = openArray
  /\ trace[3].pending = "endArrayOrValue"
  /\ IsValueToken(trace[2].res)
  /\ trace[3].res = unexpectedToken("x")
  /\ Len(input) > 1
  /\ Rest = <<"x", "\n", "4", "2", " ", "]", "\n">>
  /\ stack = <<>>

-----------------------------------------------------------------------------
(* SpecWs: consumeWhitespace(), peek() and next() called in any order on  *)
(* a StreamBuffer over chunks of whitespace and other characters, the     *)
(* zero-length chunk included                                             *)
WsPieces == {<<>>, <<" ">>, <<"\t", "\n">>, <<"\r", "a">>, <<"a", " ">>}

WsSources == UNION {[1..n -> WsPieces] : n \in 0..MaxPulls}

ConsumeWhitespace ==
  LET Resolved(b) ==
        /\ content' = b.content
        /\ src' = b.src
        /\ trace' = Append(trace, Call("consumeWhitespace", Undefined))
  IN /\ owner = "StreamBuffer"
     /\ Resolved(consumeWhitespace(Buf))
     /\ UNCHANGED <<frames, tree, input, owner, endless, stack, lastMore>>

InitWs == \E chunks \in WsSources : InitBuffer(NoValue, chunks)

NextWs == Len(trace) < MaxCalls /\ (ConsumeWhitespace \/ Peek \/ NextChar)

SpecWs == InitWs /\ [][NextWs]_vars

NoEmptyChunk == \A i \in 1..Len(input) : input[i] # <<>>

WhitespaceConsumed ==
  (trace' # trace /\ trace'[Len(trace')].op = "consumeWhitespace") => Rest' = Trimmed(Rest)

PeekAfterWhitespace ==
  \A i \in 2..Len(trace) :
    (trace[i - 1].op = "consumeWhitespace" /\ trace[i].op = "peek") =>
      /\ trace[i].res # Undefined
      /\ ~isWhitespace(trace[i].res)
      /\ i = Len(trace) => (trace[i].res = EOS <=> Rest = <<>>)

(* C32: after consumeWhitespace() returns, peek() is a character that is  *)
(* not whitespace or the end-of-stream sentinel, and what was consumed is *)
(* exactly the maximal run of whitespace at the current position, across  *)
(* chunk boundaries.                                                      *)
C32_MaximalWhitespaceRun ==
  /\ []PeekAfterWhitespace
  /\ [][WhitespaceConsumed]_vars

-----------------------------------------------------------------------------
(* SpecFrame: one decoder called on a StreamBuffer over the text of one   *)
(* value followed by other characters                                     *)
Followers == {<<>>, <<"q">>, <<",", " ">>}

FrameValues ==
  UNION {TreesOver(Prims \cup Escapes \cup Numbers \cup {BoolVal(FALSE)}, n) : n \in 1..(MaxNodes - 1)}
    \cup {ABC, FooBar}

(* The position of the quote that closes the string starting at t[1], a   *)
(* backslash escaping the character after it; 0 if there is none          *)
RECURSIVE CloseAt(_, _, _)
CloseAt(t, i, esc) ==
  IF i > Len(t) THEN 0
  ELSE IF esc THEN CloseAt(t, i + 1, FALSE)
  ELSE IF t[i] = Backslash THEN CloseAt(t, i + 1, TRUE)
  ELSE IF t[i] = Quote THEN i
  ELSE CloseAt(t, i + 1, FALSE)

(* The texts of strings, escapes of other characters than quote,          *)
(* backslash and n included                                               *)
RawStrings ==
  {s \in UNION {{<<Quote>> \o t \o <<Quote>> : t \in TextsOver({"a", Quote, Backslash}, n)} :
                  n \in 0..(MaxLen - 1)} :
     CloseAt(s, 2, FALSE) = Len(s)}

InitFrame ==
  \/ \E v \in FrameValues : \E p \in {Compact(v), Spaced(v)} : \E f \in Followers :
       \E chunks \in Deliveries(p \o f) : InitBuffer(v, chunks)
  \/ \E s \in RawStrings : \E f \in Followers :
       \E chunks \in Deliveries(s \o f) : InitBuffer(NoValue, chunks)

NextFrame ==
  DecodeString \/ DecodeNumber \/ DecodeBoolean \/ DecodeNull \/ DecodeArray \/ DecodeObject

SpecFrame == InitFrame /\ [][NextFrame]_vars

Succeeded(op) == Returned(op) /\ ~IsError(trace[1].res) /\ ~IsThrown(trace[1].res)

After(t, n) == SubSeq(t, n + 1, Len(t))

(* The length of the text of tree at the head of the text *)
Written == IF IsPrefix(Spaced(tree), Text) THEN Len(Spaced(tree)) ELSE Len(Compact(tree))

(* C33: on success a decoder has consumed exactly the characters of its   *)
(* own production: decodeString up to the closing quote, decodeNumber the *)
(* run of digits and ".", decodeBoolean and decodeNull the literal,       *)
(* decodeArray and decodeObject up to their closing bracket.              *)
C33_ConsumesOwnProduction ==
  /\ Succeeded("decodeString") => Rest = After(Text, CloseAt(Text, 2, FALSE))
  /\ Succeeded("decodeNumber") => Rest = After(Text, Len(NumberRun(Text)))
  /\ Succeeded("decodeBoolean") => Rest = After(Text, IF trace[1].res.b THEN 4 ELSE 5)
  /\ Succeeded("decodeNull") => Rest = After(Text, 4)
  /\ (Succeeded("decodeArray") /\ tree.k = "arr") => Rest = After(Text, Written)
  /\ (Succeeded("decodeObject") /\ tree.k = "obj") => Rest = After(Text, Written)

-----------------------------------------------------------------------------
(* The endObjectOrValue step is about to run and will see a "," *)
AtComma == owner = "Decoder" /\ Top(stack) = "endObjectOrValue" /\ NextVisible = ","

(* The call of next() that the step makes without await *)
CommaTaken == nextUnawaited(BufPeek(consumeWhitespace(Buf)).b)

(* The key step run on the text that follows the comma, held in content *)
KeyAfterComma == keyStep([content |-> Tail(Trimmed(Rest)), src |-> <<>>, endless |-> FALSE], <<>>)

CommaStep ==
  (AtComma /\ trace' # trace) =>
    /\ LastResult' = KeyAfterComma.res
    /\ Rest' = KeyAfterComma.b.content

(* C34: when endObjectOrValue sees ",", its call of next() without await  *)
(* completes before the call returns, so no read is left in flight, and   *)
(* removes exactly that comma; the key step then reads the text that      *)
(* follows the comma, and for every chunking the text is read in order,   *)
(* no character twice and none skipped.                                   *)
C34_CommaTakenBeforeKey ==
  /\ [](AtComma => (~CommaTaken.pending
                    /\ CommaTaken.b.content \o Concat(CommaTaken.b.src) = Tail(Trimmed(Rest))))
  /\ [](owner = "Decoder" => IsSuffix(Rest, Text))
  /\ [][CommaStep]_vars

C34_Witness ==
  /\ tree.k = "obj" /\ Len(tree.o) = 2
  /\ Text = Spaced(tree)
  /\ input = Uniform(Text, 1)
  /\ Len(trace) = 4
  /\ trace[4].pending = "endObjectOrValue"
  /\ trace[4].res = keyToken(KeyOf(2))
  /\ Rest = After(Text, Len(Text) - Len(Compact(tree.o[2][2])) - 2)

-----------------------------------------------------------------------------
Failed(r) == IsError(r) \/ IsThrown(r)

(* The key step is about to run and the next visible character is not a   *)
(* double quote                                                           *)
KeyWithoutQuote ==
  /\ owner = "Decoder"
  /\ Top(stack) = "key"
  /\ NextVisible # Quote
  /\ trace' # trace

(* The first visible character after the opening brace of the text *)
FirstInObject == IF Trimmed(Tail(Text)) = <<>> THEN EOS ELSE Head(Trimmed(Tail(Text)))

(* C35: when the first non-whitespace character at a key position is not  *)
(* a double quote, the key step and decodeObject return an error, never a *)
(* Key token or an object.                                                *)
C35_KeyNeedsQuote ==
  /\ [][KeyWithoutQuote => Failed(LastResult')]_vars
  /\ []((Returned("decodeObject") /\ Text # <<>> /\ Head(Text) = "{"
         /\ FirstInObject \notin {Quote, "}"}) => Failed(trace[1].res))

-----------------------------------------------------------------------------
(* The text the key step starts on: at a first key the text left, after a *)
(* comma the text that follows it                                         *)
KeyText ==
  IF owner = "Decoder" /\ Top(stack) = "key" THEN Trimmed(Rest)
  ELSE IF AtComma THEN Trimmed(Tail(Trimmed(Rest)))
  ELSE <<>>

(* The key step is about to run on a string that is closed *)
AtKey == KeyText # <<>> /\ Head(KeyText) = Quote /\ CloseAt(KeyText, 2, FALSE) > 0

AfterKey == Trimmed(After(KeyText, CloseAt(KeyText, 2, FALSE)))

(* C36: the key step returns UnexpectedToken(c) when the first            *)
(* non-whitespace character c after the key string is not ":"; otherwise  *)
(* it consumes the ":" and returns Key(str), and the step on top of the   *)
(* stack is then a value step.                                            *)
C36_KeyThenColon ==
  [][(AtKey /\ AfterKey # <<>> /\ trace' # trace) =>
       IF Head(AfterKey) # ":"
         THEN LastResult' = unexpectedToken(Head(AfterKey))
         ELSE /\ LastResult' = keyToken(SubSeq(KeyText, 2, CloseAt(KeyText, 2, FALSE) - 1))
              /\ Rest' = Tail(AfterKey)
              /\ Top(stack') = "value"]_vars

C36_Witness ==
  /\ owner = "Decoder"
  /\ Len(trace) = 2
  /\ trace[1].res = openObject
  /\ trace[2].pending = "key"
  /\ trace[2].res = unexpectedToken("x")
  /\ Len(input) > 1
  /\ Text[1] = " "

-----------------------------------------------------------------------------
(* The calls step by step.  A frame is one async function in progress:    *)
(* fn names it, at is the place where it resumes, got is what the call it *)
(* awaited returned, and the other fields are its local variables.  One   *)
(* step runs the innermost frame up to its next call, return or loop      *)
(* iteration, and yields what the frame does next: stay (go round the     *)
(* loop), call (await another function) or ret (return a value).          *)
Frame(fn) == [fn |-> fn, at |-> "start"]

Stay(f, b, stk) == [kind |-> "stay", f |-> f, b |-> b, stack |-> stk]

Await(f, at, callee, b, stk) ==
  [kind |-> "call", f |-> [f EXCEPT !.at = at], callee |-> callee, b |-> b, stack |-> stk]

Return(v, b, stk) == [kind |-> "ret", v |-> v, b |-> b, stack |-> stk]

(* StreamBuffer.consumeWhitespace: one round of the while loop *)
consumeWhitespaceStep(f, b, stk) ==
  LET Peeked(p) ==
        IF isWhitespace(p.c) THEN Stay(f, BufNext(p.b).b, stk) ELSE Return(Undefined, p.b, stk)
  IN Peeked(BufPeek(b))

(* decodeNull: one round of the for loop; i counts from 1 *)
decodeNullStep(f, b, stk) ==
  LET Char(n) ==
        IF n.c = EOS THEN Return(unexpectedEnd, n.b, stk)
        ELSE IF n.c # stringifiedNull[f.i] THEN Return(unexpectedToken(n.c), n.b, stk)
        ELSE Stay([f EXCEPT !.i = @ + 1], n.b, stk)
  IN IF f.at = "start" THEN Stay([fn |-> f.fn, at |-> "loop", i |-> 1], b, stk)
     ELSE IF f.i > Len(stringifiedNull) THEN Return(NullVal, b, stk)
     ELSE Char(BufNext(b))

(* decodeBoolean: the peek that chooses the literal, then one round of    *)
(* the for loop                                                           *)
decodeBooleanStep(f, b, stk) ==
  LET First(p) ==
        Stay([fn |-> f.fn, at |-> "loop", i |-> 1,
              match |-> IF p.c = "t" THEN stringifiedTrue ELSE stringifiedFalse], p.b, stk)
      Char(n) ==
        IF n.c = Undefined THEN Return(unexpectedEnd, n.b, stk)
        ELSE IF n.c # f.match[f.i] THEN Return(unexpectedToken(n.c), n.b, stk)
        ELSE Stay([f EXCEPT !.i = @ + 1], n.b, stk)
  IN IF f.at = "start" THEN First(BufPeek(b))
     ELSE IF f.i > Len(f.match) THEN Return(BoolVal(f.match = stringifiedTrue), b, stk)
     ELSE Char(BufNext(b))

(* decodeNumber: one round of the while loop, its test included *)
decodeNumberStep(f, b, stk) ==
  LET Char(n) ==
        IF n.c = EOS THEN Return(unexpectedEnd, n.b, stk)
        ELSE IF n.c = "."
          THEN IF f.i + 1 = 0 \/ f.hasDecimal
                 THEN Return(unexpectedToken(n.c), n.b, stk)
                 ELSE Stay([f EXCEPT !.jsonNumber = Append(@, n.c), !.hasDecimal = TRUE,
                                     !.i = @ + 1], n.b, stk)
        ELSE IF ~isNumber(n.c) THEN Return(parseFloat(f.jsonNumber), n.b, stk)
        ELSE Stay([f EXCEPT !.jsonNumber = Append(@, n.c), !.i = @ + 1], n.b, stk)
      Second(p2) ==
        IF isNumber(p2.c) THEN Char(BufNext(p2.b))
        ELSE Return(parseFloat(f.jsonNumber), p2.b, stk)
      First(p1) ==
        IF p1.c = "." THEN Char(BufNext(p1.b)) ELSE Second(BufPeek(p1.b))
  IN IF f.at = "start"
       THEN Stay([fn |-> f.fn, at |-> "loop", jsonNumber |-> <<>>, hasDecimal |-> FALSE,
                  i |-> -1], b, stk)
       ELSE First(BufPeek(b))

(* decodeString as it would be without the test for the end of the stream *)
decodeStringStepNoEnd(f, b, stk) ==
  LET Char(n) ==
        IF f.escaped
          THEN IF n.c = Quote \/ n.c = Backslash
                 THEN Stay([f EXCEPT !.jsonString = Append(@, n.c), !.escaped = FALSE], n.b, stk)
               ELSE IF n.c = "n"
                 THEN Stay([f EXCEPT !.jsonString = Append(@, Newline), !.escaped = FALSE],
                           n.b, stk)
               ELSE Stay(f, n.b, stk)
        ELSE IF n.c = Backslash THEN Stay([f EXCEPT !.escaped = TRUE], n.b, stk)
        ELSE IF n.c = Quote THEN Return(StrVal(f.jsonString), n.b, stk)
        ELSE IF n.c = EOS THEN Stay(f, n.b, stk)
        ELSE Stay([f EXCEPT !.jsonString = Append(@, n.c)], n.b, stk)
  IN IF f.at = "start"
       THEN Stay([fn |-> f.fn, at |-> "loop", jsonString |-> <<>>, escaped |-> FALSE],
                 BufNext(b).b, stk)
       ELSE Char(BufNext(b))

(* decodeString: the next() that takes the opening quote, then one round  *)
(* of the while loop                                                      *)
decodeStringStep(f, b, stk) ==
  LET Char(n) ==
        IF n.c = EOS THEN Return(unexpectedEnd, n.b, stk)
        ELSE IF f.escaped
          THEN IF n.c = Quote \/ n.c = Backslash
                 THEN Stay([f EXCEPT !.jsonString = Append(@, n.c), !.escaped = FALSE], n.b, stk)
               ELSE IF n.c = "n"
                 THEN Stay([f EXCEPT !.jsonString = Append(@, Newline), !.escaped = FALSE],
                           n.b, stk)
               ELSE Stay(f, n.b, stk)
        ELSE IF n.c = Backslash THEN Stay([f EXCEPT !.escaped = TRUE], n.b, stk)
        ELSE IF n.c = Quote THEN Return(StrVal(f.jsonString), n.b, stk)
        ELSE Stay([f EXCEPT !.jsonString = Append(@, n.c)], n.b, stk)
  IN IF f.at = "start"
       THEN Stay([fn |-> f.fn, at |-> "loop", jsonString |-> <<>>, escaped |-> FALSE],
                 BufNext(b).b, stk)
       ELSE Char(BufNext(b))

(* The decoder that decodeValue calls for a kind *)
DecoderOf(kind) ==
  IF kind = Kind("JSONBoolean") THEN "decodeBoolean"
  ELSE IF kind = Kind("JSONNull") THEN "decodeNull"
  ELSE IF kind = Kind("JSONString") THEN "decodeString"
  ELSE IF kind = Kind("JSONNumber") THEN "decodeNumber"
  ELSE IF kind = Kind("JSONArray") THEN "decodeArray"
  ELSE "decodeObject"

decodeValueStep(f, b, stk) ==
  LET Which(w) ==
        IF IsThrown(w.res) THEN Return(w.res, w.b, stk)
        ELSE Await(f, "ret", Frame(DecoderOf(w.res)), w.b, stk)
  IN IF f.at = "start" THEN Await(f, "which", Frame("consumeWhitespace"), b, stk)
     ELSE IF f.at = "which" THEN Which(whichJSONValue(b))
     ELSE Return(f.got, b, stk)

(* decodeArray: up to the next await of decodeValue or consumeWhitespace *)
decodeArrayStep(f, b, stk) ==
  LET Open(n) ==
        IF n.c # "[" THEN Return(unexpectedToken(n.c), n.b, stk)
        ELSE Stay([fn |-> f.fn, at |-> "loop", arr |-> <<>>, first |-> TRUE], n.b, stk)
      Closing(n) ==
        IF n.c # "]" THEN Return(unexpectedToken(n.c), n.b, stk)
        ELSE Return(ArrVal(f.arr), n.b, stk)
      Comma(n) ==
        IF n.c # "," THEN Return(unexpectedToken(n.c), n.b, stk)
        ELSE Await(f, "item", Frame("decodeValue"), n.b, stk)
      Peeked(p) ==
        IF p.c = "]" THEN Closing(BufNext(p.b))
        ELSE IF f.first THEN Await(f, "item", Frame("decodeValue"), p.b, stk)
        ELSE Comma(BufNext(p.b))
  IN IF f.at = "start" THEN Open(BufNext(b))
     ELSE IF f.at = "loop" THEN Peeked(BufPeek(b))
     ELSE IF IsThrown(f.got) THEN Return(f.got.err, b, stk)
     ELSE Await([f EXCEPT !.arr = Append(@, f.got), !.first = FALSE], "loop",
                Frame("consumeWhitespace"), b, stk)

(* decodeObject: up to the next await *)
decodeObjectStep(f, b, stk) ==
  LET Open(n) ==
        IF n.c # "{" THEN Return(unexpectedToken(n.c), n.b, stk)
        ELSE Stay([fn |-> f.fn, at |-> "loop", obj |-> <<>>, first |-> TRUE, key |-> <<>>],
                  n.b, stk)
      Closing(n) ==
        IF n.c # "}" THEN Return(unexpectedToken(n.c), n.b, stk)
        ELSE Return(ObjVal(f.obj), n.b, stk)
      Comma(n) ==
        IF n.c # "," THEN Return(unexpectedToken(n.c), n.b, stk)
        ELSE Await(f, "key", Frame("consumeWhitespace"), n.b, stk)
      Peeked(p) ==
        IF p.c = "}" THEN Closing(BufNext(p.b))
        ELSE IF f.first THEN Await(f, "key", Frame("consumeWhitespace"), p.b, stk)
        ELSE Comma(BufNext(p.b))
      Colon(n) ==
        IF n.c # ":" THEN Return(unexpectedToken(n.c), n.b, stk)
        ELSE Await(f, "val", Frame("decodeValue"), n.b, stk)
  IN IF f.at = "start" THEN Open(BufNext(b))
     ELSE IF f.at = "loop" THEN Peeked(BufPeek(b))
     ELSE IF f.at = "key" THEN Await(f, "gotkey", Frame("decodeString"), b, stk)
     ELSE IF f.at = "gotkey"
       THEN IF IsError(f.got) THEN Return(f.got, b, stk)
            ELSE Await([f EXCEPT !.key = f.got.s], "colon", Frame("consumeWhitespace"), b, stk)
     ELSE IF f.at = "colon" THEN Colon(BufNext(b))
     ELSE IF IsThrown(f.got) \/ IsError(f.got) THEN Return(f.got, b, stk)
     ELSE Await([f EXCEPT !.obj = SetMember(@, f.key, f.got), !.first = FALSE], "loop",
                Frame("consumeWhitespace"), b, stk)

(* Decoder.#value *)
valueFrameStep(f, b, stk) ==
  LET Peeked(p) ==
        IF p.c = "{"
          THEN Return(openObject, BufNext(p.b).b,
                      Push(stk, <<"endObjectOrValue", "value", "key">>))
        ELSE IF p.c = "["
          THEN Return(openArray, BufNext(p.b).b, Push(stk, <<"endArrayOrValue", "value">>))
        ELSE Await(f, "decoded", Frame("decodeValue"), p.b, stk)
  IN IF f.at = "start" THEN Await(f, "peek", Frame("consumeWhitespace"), b, stk)
     ELSE IF f.at = "peek" THEN Peeked(BufPeek(b))
     ELSE IF IsThrown(f.got) \/ IsError(f.got) THEN Return(f.got, b, stk)
     ELSE Return(valueToken(f.got), b, stk)

(* Decoder.#key *)
keyFrameStep(f, b, stk) ==
  LET Colon(n) ==
        IF n.c # ":" THEN Return(unexpectedToken(n.c), n.b, stk)
        ELSE Return(keyToken(f.value.s), n.b, stk)
  IN IF f.at = "start" THEN Await(f, "string", Frame("consumeWhitespace"), b, stk)
     ELSE IF f.at = "string" THEN Await(f, "decoded", Frame("decodeString"), b, stk)
     ELSE IF f.at = "decoded"
       THEN IF IsError(f.got) THEN Return(f.got, b, stk)
            ELSE Await([fn |-> f.fn, at |-> f.at, value |-> f.got], "colon",
                       Frame("consumeWhitespace"), b, stk)
     ELSE Colon(BufNext(b))

(* Decoder.#endObjectOrValue *)
endObjectOrValueFrameStep(f, b, stk) ==
  LET Peeked(p) ==
        IF p.c = "}" THEN Await(f, "ret", Frame("endObject"), p.b, stk)
        ELSE IF p.c = ","
          THEN Await(f, "ret", Frame("key"), Settled(nextUnawaited(p.b)),
                     Push(stk, <<"endObjectOrValue", "value">>))
        ELSE Return(unexpectedToken(p.c), p.b, stk)
  IN IF f.at = "start" THEN Await(f, "peek", Frame("consumeWhitespace"), b, stk)
     ELSE IF f.at = "peek" THEN Peeked(BufPeek(b))
     ELSE Return(f.got, b, stk)

(* Decoder.#endObject and Decoder.#endArray *)
endFrameStep(f, b, stk, closer, closed) ==
  LET Char(n) ==
        IF n.c # closer THEN Return(unexpectedToken(n.c), n.b, stk)
        ELSE Return(closed, n.b, stk)
  IN IF f.at = "start" THEN Await(f, "next", Frame("consumeWhitespace"), b, stk)
     ELSE Char(BufNext(b))

(* Decoder.#endArrayOrValue *)
endArrayOrValueFrameStep(f, b, stk) ==
  LET Peeked(p) ==
        IF p.c = "]" THEN Await(f, "ret", Frame("endArray"), p.b, stk)
        ELSE IF p.c = ","
          THEN Await(f, "ret", Frame("value"), BufNext(p.b).b, Push(stk, <<"endArrayOrValue">>))
        ELSE Return(unexpectedToken(p.c), p.b, stk)
  IN IF f.at = "start" THEN Await(f, "peek", Frame("consumeWhitespace"), b, stk)
     ELSE IF f.at = "peek" THEN Peeked(BufPeek(b))
     ELSE Return(f.got, b, stk)

(* Decoder.token *)
tokenStep(f, b, stk) ==
  IF f.at = "start"
    THEN IF stk = <<>> THEN Return(EOF, b, stk)
         ELSE Await(f, "ret", Frame(Top(stk)), b, Pop(stk))
    ELSE Return(f.got, b, stk)

(* Decoder.decode *)
decodeStep(f, b, stk) ==
  IF f.at = "start" THEN Await(f, "ret", Frame("decodeValue"), b, Pop(stk))
  ELSE Return(f.got, b, stk)

(* Decoder.more *)
moreStep(f, b, stk) ==
  LET Peeked(p) == Return(BoolVal(p.c # "}" /\ p.c # "]"), p.b, stk)
  IN IF f.at = "start" THEN Await(f, "peek", Frame("consumeWhitespace"), b, stk)
     ELSE Peeked(BufPeek(b))

StepOf(f, b, stk) ==
  IF f.fn = "consumeWhitespace" THEN consumeWhitespaceStep(f, b, stk)
  ELSE IF f.fn = "decodeNull" THEN decodeNullStep(f, b, stk)
  ELSE IF f.fn = "decodeBoolean" THEN decodeBooleanStep(f, b, stk)
  ELSE IF f.fn = "decodeNumber" THEN decodeNumberStep(f, b, stk)
  ELSE IF f.fn = "decodeString" THEN decodeStringStep(f, b, stk)
  ELSE IF f.fn = "decodeValue" THEN decodeValueStep(f, b, stk)
  ELSE IF f.fn = "decodeArray" THEN decodeArrayStep(f, b, stk)
  ELSE IF f.fn = "decodeObject" THEN decodeObjectStep(f, b, stk)
  ELSE IF f.fn = "value" THEN valueFrameStep(f, b, stk)
  ELSE IF f.fn = "key" THEN keyFrameStep(f, b, stk)
  ELSE IF f.fn = "endObjectOrValue" THEN endObjectOrValueFrameStep(f, b, stk)
  ELSE IF f.fn = "endObject" THEN endFrameStep(f, b, stk, "}", closeObject)
  ELSE IF f.fn = "endArrayOrValue" THEN endArrayOrValueFrameStep(f, b, stk)
  ELSE IF f.fn = "endArray" THEN endFrameStep(f, b, stk, "]", closeArray)
  ELSE IF f.fn = "token" THEN tokenStep(f, b, stk)
  ELSE IF f.fn = "decode" THEN decodeStep(f, b, stk)
  ELSE moreStep(f, b, stk)

(* The frames after the innermost one has returned v to its caller *)
Resume(fs, v) ==
  IF Len(fs) = 1 THEN <<>>
  ELSE [i \in 1..(Len(fs) - 1) |->
          IF i = Len(fs) - 1
            THEN [x \in DOMAIN fs[i] \cup {"got"} |-> IF x = "got" THEN v ELSE fs[i][x]]
            ELSE fs[i]]

(* A caller starts a call of op *)
Begin(op) ==
  /\ frames = <<>>
  /\ frames' = <<Frame(op)>>
  /\ UNCHANGED <<tree, input, owner, content, src, endless, stack, trace, lastMore>>

(* The innermost call in progress runs its next step *)
Step ==
  LET Done(r) ==
        /\ content' = r.b.content
        /\ src' = r.b.src
        /\ stack' = r.stack
        /\ frames' = IF r.kind = "stay" THEN [frames EXCEPT ![Len(frames)] = r.f]
                     ELSE IF r.kind = "call"
                       THEN Append([frames EXCEPT ![Len(frames)] = r.f], r.callee)
                     ELSE Resume(frames, r.v)
        /\ trace' = IF r.kind = "ret" /\ Len(frames) = 1
                      THEN Append(trace, Call(frames[1].fn, r.v))
                      ELSE trace
  IN /\ frames # <<>>
     /\ Done(StepOf(frames[Len(frames)], Buf, stack))
     /\ UNCHANGED <<tree, input, owner, endless, lastMore>>


-----------------------------------------------------------------------------
(* SpecRun: after any number of token() calls, one call of token(),       *)
(* more() or decode() on a Decoder, or one call of decodeValue() or       *)
(* consumeWhitespace() on a StreamBuffer, run step by step to its end.    *)
(* The text is a document whole, cut short, or with one character         *)
(* replaced or left out; the source delivers it whole, in one-character   *)
(* chunks, or in two chunks with a zero-length chunk between them, and    *)
(* then closes.                                                           *)
Pair == {ArrVal(<<StrVal(<<"h", "i">>), NumVal(42, 0)>>),
         ObjVal(<< <<KeyOf(1), StrVal(<<Backslash, "n">>)>>, <<KeyOf(2), ArrVal(<<NullVal>>)>> >>)}

RunTexts ==
  UNION {Damaged(Compact(v)) \cup Prefixes(Spaced(v)) : v \in Prims \cup Pair}

Halved(t) == <<SubSeq(t, 1, Len(t) \div 2), <<>>, SubSeq(t, (Len(t) \div 2) + 1, Len(t))>>

RunSources(t) == {<<t>>, Uniform(t, 1), Halved(t)}

InitRun ==
  \E t \in RunTexts : \E chunks \in RunSources(t) :
    \/ InitDecoder(NoValue, chunks, FALSE)
    \/ InitBuffer(NoValue, chunks)

Operations == IF owner = "Decoder" THEN {"token", "more", "decode"}
              ELSE {"decodeValue", "consumeWhitespace"}

NextRun ==
  \/ frames = <<>> /\ OnlyTokens /\ Len(trace) < MaxCalls /\ Token
  \/ OnlyTokens /\ Len(trace) < MaxCalls /\ \E op \in Operations : Begin(op)
  \/ Step

SpecRun == InitRun /\ [][NextRun]_vars

SpecRunFair == SpecRun /\ WF_vars(Step)

(* What the call of op returns and leaves, computed in one piece *)
InOnePiece(op, b, stk) ==
  LET Kept(r) == Out(r.res, r.b, stk)
      Asked(r) == Out(BoolVal(r.res), r.b, stk)
  IN IF op = "token" THEN token(b, stk)
     ELSE IF op = "decode" THEN decode(b, stk)
     ELSE IF op = "more" THEN Asked(more(b))
     ELSE IF op = "decodeValue" THEN Kept(decodeValue(b))
     ELSE Out(Undefined, consumeWhitespace(b), stk)


(* The result, the buffer and the stack after the first i calls of trace, *)
(* each call computed in one piece                                        *)
RECURSIVE Replayed(_)
Replayed(i) ==
  LET From(s) == InOnePiece(trace[i].op, s.b, s.stack)
  IN IF i = 0
       THEN Out(Undefined, [content |-> <<>>, src |-> input, endless |-> endless],
                IF owner = "Decoder" THEN <<"value">> ELSE <<>>)
       ELSE From(Replayed(i - 1))

(* A call run step by step returns and leaves what the same call does     *)
(* when computed in one piece                                             *)
StepsAgree ==
  frames = <<>> =>
    /\ \A i \in 1..Len(trace) : trace[i].res = Replayed(i).res
    /\ Buf = Replayed(Len(trace)).b
    /\ stack = Replayed(Len(trace)).stack

(* C37: on a stream that the source closes, every call of token(),        *)
(* more(), decode(), decodeValue() and consumeWhitespace() that has begun *)
(* comes to its end.                                                      *)
C37_CallsComplete == (frames # <<>>) ~> (frames = <<>>)

C37_Witness ==
  /\ owner = "Decoder"
  /\ frames = <<>>
  /\ trace # <<>>
  /\ trace[Len(trace)].op = "decode"
  /\ trace[Len(trace)].res = unexpectedEnd
  /\ Len(input) > 1

=============================================================================
